---------------------------- MODULE Spec2Model ----------------------------
(*
  httpoint: the per-request pipeline of the static file server.

  executePipeline (middleware/pipeline.ts) runs, for one request,
      createRequestContext -> security -> bodyCollector -> router -> handler -> logger
  and translates every thrown error into a status code.  The model follows
  one request from the 'request' event of the server to the point where the
  pipeline and every stream it started have finished.

  Text and bytes.  A JavaScript string and a Buffer are both modelled as a
  sequence of one-character strings ("/", "a", CR, ...).  Offsets are the
  0-based offsets of JavaScript: IndexOf returns -1 when there is no match and
  Subarray(b, s, e) is b.subarray(s, e).  One element, FILL, stands for a run
  of MAX_BODY_SIZE bytes of value 0x00 (HALF for half that many): a byte that
  occurs in no marker, header name or attribute pattern, so no search ever
  matches inside the run and the run can be carried as one element.  ByteLength
  gives the length in bytes the program sees.
*)
EXTENDS Integers, Sequences, FiniteSets, TLC

\* ------------------------------------------------------------------------
\* Strings and buffers
\* ------------------------------------------------------------------------

CR ==
    "\r"

LF ==
    "\n"

\* src/src/middleware/body-collector.ts:4   100 * 1024 * 1024
MAX_BODY_SIZE ==
    104857600

FILL ==
    "<0x00 * 104857600>"

HALF ==
    "<0x00 * 52428800>"

ElemLength(e) ==
    IF e = FILL THEN MAX_BODY_SIZE
    ELSE IF e = HALF THEN MAX_BODY_SIZE \div 2
    ELSE 1

\* Buffer.length / chunk.length
ByteLength(b) ==
    Len(b) + Cardinality({i \in 1..Len(b) : b[i] = FILL}) * (ElemLength(FILL) - 1)
           + Cardinality({i \in 1..Len(b) : b[i] = HALF}) * (ElemLength(HALF) - 1)

MinOf(S) ==
    CHOOSE x \in S : \A y \in S : x <= y

\* String.prototype.startsWith
StartsWith(s, p) ==
    /\ Len(p) <= Len(s)
    /\ \A j \in 1..Len(p) : s[j] = p[j]

MatchAt(s, p, i) ==
    /\ i >= 0
    /\ i + Len(p) <= Len(s)
    /\ \A j \in 1..Len(p) : s[i + j] = p[j]

\* Buffer.prototype.indexOf(value, byteOffset) and String.prototype.indexOf:
\* the least 0-based offset >= from at which p occurs in s, or -1.
IndexOf(s, p, from) ==
    LET cand == {i \in from..(Len(s) - Len(p)) : MatchAt(s, p, i)}
    IN  IF cand = {} THEN -1 ELSE MinOf(cand)

\* String.prototype.includes
Includes(s, p) ==
    IndexOf(s, p, 0) # -1

\* Buffer.prototype.subarray(start, end) / String.prototype.substring, with
\* 0-based half-open offsets clamped to the length as JavaScript clamps them.
Subarray(s, start, end) ==
    LET e == IF end > Len(s) THEN Len(s) ELSE end
        b == IF start < 0 THEN 0 ELSE start
    IN  IF b >= e THEN <<>> ELSE SubSeq(s, b + 1, e)

SubarrayFrom(s, start) ==
    Subarray(s, start, Len(s))

RECURSIVE SplitFrom(_, _, _, _)
SplitFrom(s, sep, from, acc) ==
    LET i == IndexOf(s, sep, from)
    IN  IF i = -1 THEN Append(acc, SubarrayFrom(s, from))
        ELSE SplitFrom(s, sep, i + Len(sep), Append(acc, Subarray(s, from, i)))

\* String.prototype.split(sep) for a non-empty separator
Split(s, sep) ==
    SplitFrom(s, sep, 0, <<>>)

RECURSIVE JoinFrom(_, _, _)
JoinFrom(segs, sep, i) ==
    IF i > Len(segs) THEN <<>>
    ELSE IF i = Len(segs) THEN segs[i]
    ELSE segs[i] \o sep \o JoinFrom(segs, sep, i + 1)

\* Array.prototype.join(sep)
Join(segs, sep) ==
    JoinFrom(segs, sep, 1)

RECURSIVE ConcatFrom(_, _)
ConcatFrom(bufs, i) ==
    IF i > Len(bufs) THEN <<>> ELSE bufs[i] \o ConcatFrom(bufs, i + 1)

\* Buffer.concat(list)
BufferConcat(bufs) ==
    ConcatFrom(bufs, 1)

\* ------------------------------------------------------------------------
\* Node's path module (posix)
\* ------------------------------------------------------------------------

Slash ==
    <<"/">>

Dot ==
    <<".">>

DotDot ==
    <<".", ".">>

RECURSIVE normalizeSegments(_, _, _, _)
normalizeSegments(segs, i, res, allowAboveRoot) ==
    IF i > Len(segs) THEN res
    ELSE LET g == segs[i] IN
         IF g = <<>> \/ g = Dot
         THEN normalizeSegments(segs, i + 1, res, allowAboveRoot)
         ELSE IF g = DotDot
         THEN IF Len(res) > 0 /\ res[Len(res)] # DotDot
              THEN normalizeSegments(segs, i + 1, SubSeq(res, 1, Len(res) - 1), allowAboveRoot)
              ELSE IF allowAboveRoot
                   THEN normalizeSegments(segs, i + 1, Append(res, g), allowAboveRoot)
                   ELSE normalizeSegments(segs, i + 1, res, allowAboveRoot)
         ELSE normalizeSegments(segs, i + 1, Append(res, g), allowAboveRoot)

\* normalizeString of lib/path.js: drops empty and "." segments and resolves
\* ".." against the segment before it
normalizeString(p, allowAboveRoot) ==
    Join(normalizeSegments(Split(p, Slash), 1, <<>>, allowAboveRoot), Slash)

isAbsolute(p) ==
    Len(p) > 0 /\ p[1] = "/"

\* path.normalize
pathNormalize(p) ==
    IF Len(p) = 0 THEN Dot
    ELSE LET trailingSeparator == p[Len(p)] = "/"
             n == normalizeString(p, ~isAbsolute(p))
         IN  IF Len(n) = 0
             THEN IF isAbsolute(p) THEN Slash
                  ELSE IF trailingSeparator THEN <<".", "/">> ELSE Dot
             ELSE LET t == IF trailingSeparator THEN n \o Slash ELSE n
                  IN  IF isAbsolute(p) THEN Slash \o t ELSE t

\* the arguments of path.join that are not empty strings
NonEmptyArgs(args) ==
    SelectSeq(args, LAMBDA a : Len(a) > 0)

\* path.join(...args)
pathJoinAll(args) ==
    IF Len(NonEmptyArgs(args)) = 0 THEN Dot
    ELSE pathNormalize(Join(NonEmptyArgs(args), Slash))

\* path.join(a, b)
pathJoin(a, b) ==
    pathJoinAll(<<a, b>>)

\* process.cwd(): the directory the server was started in
Cwd ==
    <<"/", "a", "p", "p">>

\* path.resolve(p): absolute, normalized, without a trailing separator
pathResolve(p) ==
    LET abs == IF isAbsolute(p) THEN p ELSE Cwd \o Slash \o p
    IN  Slash \o normalizeString(abs, FALSE)

\* ------------------------------------------------------------------------
\* Errors
\* ------------------------------------------------------------------------

\* An Error object: the class an instanceof test sees, its message and, for
\* a filesystem error, its code.
Err(class, message, code) ==
    [class |-> class, message |-> message, code |-> code]

NoError ==
    Err("none", "", "")

\* security.ts: class SecurityViolationError extends Error
SecurityViolationError(message) ==
    Err("SecurityViolationError", message, "")

GenericError(message) ==
    Err("Error", message, "")

\* an error of fs: NodeJS.ErrnoException with its code
ErrnoException(code) ==
    Err("Error", code, code)

\* ------------------------------------------------------------------------
\* context/request.ts
\* ------------------------------------------------------------------------

\* url.parse(u).pathname: the part of the URL before the query and the hash
\* (<<>> stands for null)
urlPathname(u) ==
    LET q == IndexOf(u, <<"?">>, 0)
        h == IndexOf(u, <<"#">>, 0)
        stops == {i \in {q, h} : i # -1}
    IN  IF stops = {} THEN u ELSE Subarray(u, 0, MinOf(stops))

\* The percent escapes decodeURIComponent meets in the model's URLs; every
\* other pair after "%" is not two hex digits of a valid UTF-8 sequence here.
PercentEscapes ==
    { <<"2", "e">>, <<"2", "E">>, <<"2", "f">>, <<"2", "F">>, <<"2", "5">> }

PercentDecoded(hex) ==
    IF hex \in {<<"2", "e">>, <<"2", "E">>} THEN "."
    ELSE IF hex \in {<<"2", "f">>, <<"2", "F">>} THEN "/"
    ELSE "%"

\* the text from 0-based offset `from` on, each escape replaced by its character
RECURSIVE decodeFrom(_, _)
decodeFrom(s, from) ==
    LET i == IndexOf(s, <<"%">>, from)
    IN  IF i = -1 THEN SubarrayFrom(s, from)
        ELSE Subarray(s, from, i) \o <<PercentDecoded(Subarray(s, i + 1, i + 3))>>
                 \o decodeFrom(s, i + 3)

\* decodeURIComponent throws URIError on a "%" that does not start an escape
decodeThrows(s) ==
    \E i \in 1..Len(s) :
        /\ s[i] = "%"
        /\ (i + 2 > Len(s) \/ SubSeq(s, i + 1, i + 2) \notin PercentEscapes)

decodeURIComponent(s) ==
    decodeFrom(s, 0)

resolvePath(requestPath, root) ==
    pathJoin(root, requestPath)

validatePath(filePath, root) ==
    StartsWith(filePath, root)

\* The result of an async function: a value or a thrown error.
Returned(v) ==
    [ok |-> TRUE, value |-> v, error |-> NoError]

Thrown(e) ==
    [ok |-> FALSE, value |-> <<>>, error |-> e]

NoBody ==
    [set |-> FALSE, data |-> <<>>]

\* createRequestContext(req, res, config): the context, with body undefined,
\* or the error it throws
createRequestContext(url, root) ==
    IF Len(url) = 0 THEN Thrown(GenericError("Request URL is required"))
    ELSE IF Len(urlPathname(url)) = 0
         THEN Thrown(GenericError("Request pathname is required"))
    ELSE IF decodeThrows(urlPathname(url))
         THEN Thrown(Err("URIError", "URI malformed", ""))
    ELSE LET requestPath == decodeURIComponent(urlPathname(url))
             filePath == resolvePath(requestPath, root)
         IN  IF ~validatePath(filePath, root)
             THEN Thrown(SecurityViolationError(
                      "Path validation failed - potential directory traversal"))
             ELSE Returned([requestPath |-> requestPath,
                            filePath |-> filePath,
                            body |-> NoBody])

\* ------------------------------------------------------------------------
\* middleware/security.ts
\* ------------------------------------------------------------------------

\* security(context): returns, or throws SecurityViolationError
security(requestPath, filePath, root) ==
    LET resolvedPath == pathResolve(filePath)
        normalizedPath == pathNormalize(resolvedPath)
        rootResolved == pathResolve(root)
        normalizedRequestPath == pathNormalize(requestPath)
    IN  IF ~StartsWith(normalizedPath, rootResolved)
        THEN Thrown(SecurityViolationError("Security violation: directory traversal attempt detected"))
        ELSE IF Includes(normalizedRequestPath, DotDot)
        THEN Thrown(SecurityViolationError("Security violation: invalid path sequence detected"))
        ELSE Returned(<<>>)

\* ------------------------------------------------------------------------
\* utils/multipart.ts
\* ------------------------------------------------------------------------

CRLF ==
    <<CR, LF>>

CRLFCRLF ==
    <<CR, LF, CR, LF>>

Quote ==
    <<"\"">>

DashDash ==
    <<"-", "-">>

Str_ContentDisposition ==
    <<"C", "o", "n", "t", "e", "n", "t", "-", "D", "i", "s", "p", "o", "s", "i", "t", "i", "o", "n">>

Str_filenameEq ==
    <<"f", "i", "l", "e", "n", "a", "m", "e", "=", "\"">>

Str_nameEq ==
    <<"n", "a", "m", "e", "=", "\"">>

NoMatch ==
    [matched |-> FALSE, group |-> <<>>]

\* The offsets at which key"<one or more non-quote characters>" matches
QuotedMatches(line, key) ==
    {p \in 0..Len(line) :
        /\ MatchAt(line, key, p)
        /\ IndexOf(line, Quote, p + Len(key)) > p + Len(key)}

\* line.match(/key"([^"]+)"/): the leftmost match and its capture group
matchQuoted(line, key) ==
    IF QuotedMatches(line, key) = {} THEN NoMatch
    ELSE LET p == MinOf(QuotedMatches(line, key))
         IN  [matched |-> TRUE,
              group |-> Subarray(line, p + Len(key), IndexOf(line, Quote, p + Len(key)))]

\* headerLines.find(line => line.startsWith('Content-Disposition')), <<>> for
\* undefined
RECURSIVE findContentDisposition(_, _)
findContentDisposition(headerLines, i) ==
    IF i > Len(headerLines) THEN <<>>
    ELSE IF StartsWith(headerLines[i], Str_ContentDisposition) THEN headerLines[i]
    ELSE findContentDisposition(headerLines, i + 1)

\* parsePart taking the data from two bytes after the end of the headers
parsePart_shortSkip(part, parts) ==
    LET headerEnd == IndexOf(part, CRLFCRLF, 0) IN
    IF headerEnd = -1 THEN parts
    ELSE LET headers == Subarray(part, 0, headerEnd)
             data == SubarrayFrom(part, headerEnd + 2)
             contentDisposition == findContentDisposition(Split(headers, CRLF), 1)
             filenameMatch == matchQuoted(contentDisposition, Str_filenameEq)
             nameMatch == matchQuoted(contentDisposition, Str_nameEq)
         IN  IF Len(contentDisposition) > 0 /\ filenameMatch.matched /\ nameMatch.matched
             THEN Append(parts, [name |-> nameMatch.group,
                                 filename |-> filenameMatch.group,
                                 data |-> data])
             ELSE parts

\* parsePart keeping every part that has a name, with or without file name
parsePart_nameOnly(part, parts) ==
    LET headerEnd == IndexOf(part, CRLFCRLF, 0) IN
    IF headerEnd = -1 THEN parts
    ELSE LET headers == Subarray(part, 0, headerEnd)
             data == SubarrayFrom(part, headerEnd + 4)
             contentDisposition == findContentDisposition(Split(headers, CRLF), 1)
             filenameMatch == matchQuoted(contentDisposition, Str_filenameEq)
             nameMatch == matchQuoted(contentDisposition, Str_nameEq)
         IN  IF Len(contentDisposition) > 0 /\ nameMatch.matched
             THEN Append(parts, [name |-> nameMatch.group,
                                 filename |-> filenameMatch.group,
                                 data |-> data])
             ELSE parts

\* lines 39-57 of parseMultipart: the parts list after looking at one part
parsePart(part, parts) ==
    LET headerEnd == IndexOf(part, CRLFCRLF, 0) IN
    IF headerEnd = -1 THEN parts
    ELSE LET headers == Subarray(part, 0, headerEnd)
             data == SubarrayFrom(part, headerEnd + 4)
             contentDisposition == findContentDisposition(Split(headers, CRLF), 1)
             filenameMatch == matchQuoted(contentDisposition, Str_filenameEq)
             nameMatch == matchQuoted(contentDisposition, Str_nameEq)
         IN  IF Len(contentDisposition) > 0 /\ filenameMatch.matched /\ nameMatch.matched
             THEN Append(parts, [name |-> nameMatch.group,
                                 filename |-> filenameMatch.group,
                                 data |-> data])
             ELSE parts

\* loopTurn looking for the next marker from the marker it stands on
loopTurn_fromMarker(body, boundaryBuffer, endBoundaryBuffer, end, parts) ==
    LET partStart == end
        nextBoundary == IndexOf(body, boundaryBuffer, partStart)
        endBoundaryIndex == IndexOf(body, endBoundaryBuffer, partStart)
        partEnd == IF nextBoundary = -1 THEN endBoundaryIndex ELSE nextBoundary
    IN  IF partEnd = -1 THEN [again |-> FALSE, end |-> end, parts |-> parts]
        ELSE LET newParts == parsePart(Subarray(body, partStart, partEnd), parts)
             IN  IF partEnd = endBoundaryIndex
                 THEN [again |-> FALSE, end |-> end, parts |-> newParts]
                 ELSE [again |-> TRUE, end |-> IndexOf(body, boundaryBuffer, partEnd),
                       parts |-> newParts]

\* loopTurn taking a part without marker after it up to the end of the body
loopTurn_toEnd(body, boundaryBuffer, endBoundaryBuffer, end, parts) ==
    LET partStart == end + Len(boundaryBuffer)
        nextBoundary == IndexOf(body, boundaryBuffer, partStart)
        endBoundaryIndex == IndexOf(body, endBoundaryBuffer, partStart)
        partEnd == IF nextBoundary = -1 THEN endBoundaryIndex ELSE nextBoundary
    IN  IF partEnd = -1
        THEN [again |-> FALSE, end |-> end,
              parts |-> parsePart(SubarrayFrom(body, partStart), parts)]
        ELSE LET newParts == parsePart(Subarray(body, partStart, partEnd), parts)
             IN  IF partEnd = endBoundaryIndex
                 THEN [again |-> FALSE, end |-> end, parts |-> newParts]
                 ELSE [again |-> TRUE, end |-> IndexOf(body, boundaryBuffer, partEnd),
                       parts |-> newParts]

\* one turn of the while loop of parseMultipart (lines 27-64), entered with
\* the offset `end` of the marker the part starts after: whether the loop
\* goes on, the offset of the next marker, and the parts so far
loopTurn(body, boundaryBuffer, endBoundaryBuffer, end, parts) ==
    LET partStart == end + Len(boundaryBuffer)
        nextBoundary == IndexOf(body, boundaryBuffer, partStart)
        endBoundaryIndex == IndexOf(body, endBoundaryBuffer, partStart)
        partEnd == IF nextBoundary = -1 THEN endBoundaryIndex ELSE nextBoundary
    IN  IF partEnd = -1 THEN [again |-> FALSE, end |-> end, parts |-> parts]
        ELSE LET newParts == parsePart(Subarray(body, partStart, partEnd), parts)
             IN  IF partEnd = endBoundaryIndex
                 THEN [again |-> FALSE, end |-> end, parts |-> newParts]
                 ELSE [again |-> TRUE, end |-> IndexOf(body, boundaryBuffer, partEnd),
                       parts |-> newParts]

\* the while loop of parseMultipart, entered with the offset `end` of the
\* marker the next part starts after
RECURSIVE parseLoop(_, _, _, _, _)
parseLoop(body, boundaryBuffer, endBoundaryBuffer, end, parts) ==
    IF end = -1 THEN parts
    ELSE LET turn == loopTurn(body, boundaryBuffer, endBoundaryBuffer, end, parts)
         IN  IF turn.again
             THEN parseLoop(body, boundaryBuffer, endBoundaryBuffer, turn.end, turn.parts)
             ELSE turn.parts

\* parseMultipart searching for the boundary after one dash instead of two
parseMultipart_singleDash(body, boundary) ==
    parseLoop(body, <<"-">> \o boundary, <<"-">> \o boundary \o DashDash,
              IndexOf(body, <<"-">> \o boundary, 0), <<>>)

\* parseMultipart(body, boundary)
parseMultipart(body, boundary) ==
    parseLoop(body, DashDash \o boundary, DashDash \o boundary \o DashDash,
              IndexOf(body, DashDash \o boundary, 0), <<>>)

\* ------------------------------------------------------------------------
\* The filesystem (fs and fs/promises), as the operating system answers
\* ------------------------------------------------------------------------

MaxOf(S) ==
    CHOOSE x \in S : \A y \in S : x >= y

\* path.dirname (posix)
pathDirname(p) ==
    LET nonSlash == {i \in 1..Len(p) : p[i] # "/"}
        slashes == IF nonSlash = {} THEN {}
                   ELSE {i \in 2..MaxOf(nonSlash) : p[i] = "/"}
    IN  IF Len(p) = 0 THEN Dot
        ELSE IF slashes = {} THEN (IF isAbsolute(p) THEN Slash ELSE Dot)
        ELSE IF isAbsolute(p) /\ MaxOf(slashes) = 2 THEN <<"/", "/">>
        ELSE SubSeq(p, 1, MaxOf(slashes) - 1)

\* path.basename of a normalized absolute path
pathBasename(p) ==
    LET slashes == {i \in 1..Len(p) : p[i] = "/"}
    IN  IF slashes = {} THEN p ELSE SubSeq(p, MaxOf(slashes) + 1, Len(p))

Dir ==
    [kind |-> "dir", data |-> <<>>]

File(data) ==
    [kind |-> "file", data |-> data]

\* a directory the server's user has no permission for: it cannot be read
\* and nothing inside it can be reached
LockedDir ==
    [kind |-> "locked", data |-> <<>>]

\* a symbolic link whose target does not exist
DanglingLink ==
    [kind |-> "dangling", data |-> <<>>]

\* the key of a path in the file table: absolute, normalized, no trailing slash
FsKey(p) ==
    pathResolve(p)

HasTrailingSlash(p) ==
    Len(p) > 1 /\ p[Len(p)] = "/"

\* the proper ancestors of a key, "/" excluded
Ancestors(key) ==
    {SubSeq(key, 1, i - 1) : i \in {j \in 2..Len(key) : key[j] = "/"}}

\* the errno of the first ancestor that stops path resolution, or "" when
\* every ancestor is a directory that can be searched
AncestorError(files, key) ==
    IF \E a \in Ancestors(key) : a \notin DOMAIN files THEN "ENOENT"
    ELSE IF \E a \in Ancestors(key) : files[a].kind = "dangling" THEN "ENOENT"
    ELSE IF \E a \in Ancestors(key) : files[a].kind = "file" THEN "ENOTDIR"
    ELSE IF \E a \in Ancestors(key) : files[a].kind = "locked" THEN "EACCES"
    ELSE ""

\* what stat(2) answers for a path: "dir", "file", or the errno
StatOutcome(files, p) ==
    LET key == FsKey(p) IN
    IF AncestorError(files, key) # "" THEN AncestorError(files, key)
    ELSE IF key \notin DOMAIN files THEN "ENOENT"
    ELSE IF files[key].kind = "dangling" THEN "ENOENT"
    ELSE IF files[key].kind = "locked" THEN "dir"
    ELSE IF files[key].kind = "file" /\ HasTrailingSlash(p) THEN "ENOTDIR"
    ELSE files[key].kind

\* what open(2) for writing with O_CREAT|O_TRUNC answers: "ok" or the errno
WriteOutcome(files, p) ==
    LET key == FsKey(p) IN
    IF AncestorError(files, key) # "" THEN AncestorError(files, key)
    ELSE IF HasTrailingSlash(p) \/ key = Slash THEN "EISDIR"
    ELSE IF key \notin DOMAIN files THEN "ok"
    ELSE IF files[key].kind \in {"dir", "locked"} THEN "EISDIR"
    ELSE IF files[key].kind = "dangling" THEN "ENOENT"
    ELSE "ok"

\* what opendir(3) answers: "ok" or the errno
ReaddirOutcome(files, p) ==
    LET key == FsKey(p) IN
    IF StatOutcome(files, p) \notin {"dir", "file"} THEN StatOutcome(files, p)
    ELSE IF files[key].kind = "locked" THEN "EACCES"
    ELSE IF files[key].kind = "file" THEN "ENOTDIR"
    ELSE "ok"

\* the file table after fs.writeFile(p, data) succeeded
WriteFile(files, p, data) ==
    [k \in DOMAIN files \cup {FsKey(p)} |->
        IF k = FsKey(p) THEN File(data) ELSE files[k]]

\* the names fs.readdirSync(dir) returns, as a set
Children(files, dir) ==
    {pathBasename(k) : k \in {j \in DOMAIN files : j # Slash /\ pathDirname(j) = FsKey(dir)}}

\* the orders in which the directory read may return a set of names
Orderings(S) ==
    {q \in [1..Cardinality(S) -> S] : \A i, j \in 1..Cardinality(S) : i # j => q[i] # q[j]}

FsOp(op, path) ==
    [op |-> op, path |-> path]

\* ------------------------------------------------------------------------
\* utils/mime.ts and utils/format.ts
\* ------------------------------------------------------------------------

\* path.extname of a path whose last segment has at most one dot, lower-cased
\* letters only in the model
pathExtname(p) ==
    LET base == pathBasename(p)
        dots == {i \in 2..Len(base) : base[i] = "."}
    IN  IF dots = {} THEN <<>> ELSE SubSeq(base, MaxOf(dots), Len(base))

getMimeType(filePath) ==
    LET ext == pathExtname(filePath) IN
    IF ext = <<".", "h", "t", "m", "l">> THEN "text/html"
    ELSE IF ext = <<".", "c", "s", "s">> THEN "text/css"
    ELSE IF ext = <<".", "j", "s">> THEN "application/javascript"
    ELSE IF ext = <<".", "j", "s", "o", "n">> THEN "application/json"
    ELSE IF ext = <<".", "p", "n", "g">> THEN "image/png"
    ELSE IF ext \in {<<".", "j", "p", "g">>, <<".", "j", "p", "e", "g">>} THEN "image/jpeg"
    ELSE IF ext = <<".", "g", "i", "f">> THEN "image/gif"
    ELSE IF ext = <<".", "s", "v", "g">> THEN "image/svg+xml"
    ELSE IF ext = <<".", "t", "x", "t">> THEN "text/plain"
    ELSE IF ext = <<".", "p", "d", "f">> THEN "application/pdf"
    ELSE IF ext = <<".", "z", "i", "p">> THEN "application/zip"
    ELSE "application/octet-stream"

Units ==
    <<"B", "KB", "MB", "GB", "TB">>

RECURSIVE Pow1024(_)
Pow1024(k) ==
    IF k = 0 THEN 1 ELSE 1024 * Pow1024(k - 1)

\* A number of bytes is written with its digits in base 1024, the lowest
\* first and the highest not 0 (<<0>> is zero): <<0, 1>> is 1024.  Dividing by
\* 1024 moves the point one digit up, which is exact in a double for the whole
\* numbers below 2^53.
RECURSIVE Digits1024(_)
Digits1024(n) ==
    IF n < 1024 THEN <<n>> ELSE <<n % 1024>> \o Digits1024(n \div 1024)

\* unitIndexFrom with the loop going on only while size > 1024
RECURSIVE unitIndexFrom_strict(_, _)
unitIndexFrom_strict(size, unitIndex) ==
    IF /\ Len(size) - unitIndex > 1
       /\ ~(/\ Len(size) - unitIndex = 2
            /\ size[Len(size)] = 1
            /\ \A i \in 1..(Len(size) - 1) : size[i] = 0)
       /\ unitIndex < Len(Units) - 1
    THEN unitIndexFrom_strict(size, unitIndex + 1)
    ELSE unitIndex

\* the unitIndex the while loop of formatFileSize stops at, for the bytes
\* `size` already divided unitIndex times: the value is 1024 or more when
\* more than one digit stands above the point
RECURSIVE unitIndexFrom(_, _)
unitIndexFrom(size, unitIndex) ==
    IF Len(size) - unitIndex > 1 /\ unitIndex < Len(Units) - 1
    THEN unitIndexFrom(size, unitIndex + 1)
    ELSE unitIndex

unitIndexOf(bytes) ==
    unitIndexFrom(bytes, 0)

\* the whole part of twenty times the fraction that the lowest k digits are
RECURSIVE Twentieths(_, _)
Twentieths(bytes, k) ==
    IF k = 0 THEN 0 ELSE (20 * bytes[k] + Twentieths(bytes, k - 1)) \div 1024

\* the value of the digits above the lowest k
RECURSIVE WholeAbove(_, _)
WholeAbove(bytes, k) ==
    IF k >= Len(bytes) THEN 0 ELSE bytes[k + 1] + 1024 * WholeAbove(bytes, k + 1)

\* formatFileSize(bytes): the number size.toFixed(1) prints, as its whole
\* part and its one decimal (toFixed rounds to the nearest tenth and a tie
\* upwards), and the unit
formatFileSize(bytes) ==
    LET k == unitIndexOf(bytes)
        tenths == (Twentieths(bytes, k) + 1) \div 2
    IN  [whole |-> WholeAbove(bytes, k) + (IF tenths = 10 THEN 1 ELSE 0),
         tenth |-> tenths % 10,
         unit |-> Units[k + 1]]

\* ------------------------------------------------------------------------
\* views/directory-listing.ts
\* ------------------------------------------------------------------------

\* The characters of the model's file names that encodeURIComponent escapes
encodeChar(c) ==
    IF c = " " THEN <<"%", "2", "0">>
    ELSE IF c = "%" THEN <<"%", "2", "5">>
    ELSE IF c = "\"" THEN <<"%", "2", "2">>
    ELSE <<c>>

\* encodeURIComponent
encodeURIComponent(name) ==
    BufferConcat([i \in 1..Len(name) |-> encodeChar(name[i])])

Item(kind, href, label, size) ==
    [kind |-> kind, href |-> href, label |-> label, size |-> size]

NoSize ==
    [whole |-> 0, tenth |-> 0, unit |-> ""]

\* the `items` array: the parent link unless the request path is "/"
parentItems(requestPath) ==
    IF requestPath # Slash
    THEN <<Item("parent", pathDirname(requestPath), <<".", ".", "/">>, NoSize)>>
    ELSE <<>>

\* the <li> of one directory entry
entryItem(files, dirPath, requestPath, file) ==
    LET filePath == pathJoin(dirPath, file)
        href == pathJoin(requestPath, encodeURIComponent(file))
    IN  IF StatOutcome(files, filePath) = "dir"
        THEN Item("dir", href \o Slash, file \o Slash, NoSize)
        ELSE Item("file", href, file,
                  formatFileSize(Digits1024(ByteLength(files[FsKey(filePath)].data))))

\* generateDirectoryListing with the items in the order of the directory read
generateDirectoryListing_readOrder(files, dirPath, requestPath, names) ==
    [ok |-> TRUE, ops |-> <<>>, error |-> NoError,
     page |-> parentItems(requestPath)
              \o [i \in 1..Len(names) |-> entryItem(files, dirPath, requestPath, names[i])]]

\* generateDirectoryListing(dirPath, requestPath) when readdirSync answers
\* `names`: the page (the <li> items in page order), or the error readdirSync
\* or statSync threw, and the filesystem calls made
generateDirectoryListing(files, dirPath, requestPath, names) ==
    LET statFails == {i \in 1..Len(names) :
                        StatOutcome(files, pathJoin(dirPath, names[i])) \notin {"dir", "file"}}
        upto == IF statFails = {} THEN Len(names) ELSE MinOf(statFails)
        calls == <<FsOp("readdir", dirPath)>>
                   \o [i \in 1..upto |-> FsOp("stat", pathJoin(dirPath, names[i]))]
        all == [i \in 1..Len(names) |-> entryItem(files, dirPath, requestPath, names[i])]
        directories == SelectSeq(all, LAMBDA it : it.kind = "dir")
        regularFiles == SelectSeq(all, LAMBDA it : it.kind = "file")
    IN  IF ReaddirOutcome(files, dirPath) # "ok"
        THEN [ok |-> FALSE, ops |-> <<FsOp("readdir", dirPath)>>, page |-> <<>>,
              error |-> ErrnoException(ReaddirOutcome(files, dirPath))]
        ELSE IF statFails # {}
        THEN [ok |-> FALSE, ops |-> calls, page |-> <<>>,
              error |-> ErrnoException(StatOutcome(files,
                            pathJoin(dirPath, names[MinOf(statFails)])))]
        ELSE [ok |-> TRUE, ops |-> calls, error |-> NoError,
              page |-> parentItems(requestPath) \o directories \o regularFiles]

\* ------------------------------------------------------------------------
\* middleware/router.ts: router
\* ------------------------------------------------------------------------

AssetPrefix ==
    <<"/", "_", "h", "t", "t", "p", "o", "i", "n", "t", "_", "a", "s", "s", "e", "t", "s", "/">>

HandlerResult(handler, statusCode, message) ==
    [handler |-> handler, statusCode |-> statusCode, message |-> message]

\* router returning the status 404 together with the file handler
router_bothArms(requestPath, method, stat) ==
    IF StartsWith(requestPath, AssetPrefix) THEN HandlerResult("assetHandler", 0, "")
    ELSE IF stat = "dir"
         THEN IF method = "POST" THEN HandlerResult("directoryUploadHandler", 0, "")
              ELSE HandlerResult("directoryListingHandler", 0, "")
    ELSE IF stat = "file" THEN HandlerResult("fileHandler", 0, "")
    ELSE IF stat = "ENOENT" THEN HandlerResult("fileHandler", 404, "Not Found")
    ELSE HandlerResult("", 500, "Internal Server Error")

\* router testing the asset prefix only after the stat of the path under root
router_statFirst(requestPath, method, stat) ==
    IF stat = "dir"
    THEN IF method = "POST" THEN HandlerResult("directoryUploadHandler", 0, "")
         ELSE HandlerResult("directoryListingHandler", 0, "")
    ELSE IF stat = "file" THEN HandlerResult("fileHandler", 0, "")
    ELSE IF StartsWith(requestPath, AssetPrefix) THEN HandlerResult("assetHandler", 0, "")
    ELSE IF stat = "ENOENT" THEN HandlerResult("", 404, "Not Found")
    ELSE HandlerResult("", 500, "Internal Server Error")

\* router handing every POST to the upload handler, whatever fs.stat answers
router_postFirst(requestPath, method, stat) ==
    IF StartsWith(requestPath, AssetPrefix) THEN HandlerResult("assetHandler", 0, "")
    ELSE IF method = "POST" THEN HandlerResult("directoryUploadHandler", 0, "")
    ELSE IF stat = "dir" THEN HandlerResult("directoryListingHandler", 0, "")
    ELSE IF stat = "file" THEN HandlerResult("fileHandler", 0, "")
    ELSE IF stat = "ENOENT" THEN HandlerResult("", 404, "Not Found")
    ELSE HandlerResult("", 500, "Internal Server Error")

\* router(context) when fs.stat(filePath) answers `stat` ("dir", "file" or an
\* errno); "" and 0 stand for an undefined field of the result
router(requestPath, method, stat) ==
    IF StartsWith(requestPath, AssetPrefix) THEN HandlerResult("assetHandler", 0, "")
    ELSE IF stat = "dir"
         THEN IF method = "POST" THEN HandlerResult("directoryUploadHandler", 0, "")
              ELSE HandlerResult("directoryListingHandler", 0, "")
    ELSE IF stat = "file" THEN HandlerResult("fileHandler", 0, "")
    ELSE IF stat = "ENOENT" THEN HandlerResult("", 404, "Not Found")
    ELSE HandlerResult("", 500, "Internal Server Error")

\* the filesystem calls router(context) makes
routerOps(requestPath, filePath) ==
    IF StartsWith(requestPath, AssetPrefix) THEN <<>> ELSE <<FsOp("stat", filePath)>>

\* ------------------------------------------------------------------------
\* Configuration, the files on disk and the requests of the model
\* ------------------------------------------------------------------------

\* config.root: an absolute, normalized directory (--path is passed through
\* path.resolve, the default is process.cwd())
Root ==
    <<"/", "s", "r", "v", "/", "w", "w", "w">>

\* __dirname of the compiled router.js
Dirname ==
    <<"/", "a", "p", "p", "/", "d", "i", "s", "t", "/", "m", "i", "d", "d", "l", "e", "w", "a",
      "r", "e">>

Str_httpoint_assets ==
    <<"_", "h", "t", "t", "p", "o", "i", "n", "t", "_", "a", "s", "s", "e", "t", "s">>

\* a directory beside root whose name has root's path as a string prefix
SiblingDir ==
    <<"/", "s", "r", "v", "/", "w", "w", "w", "-", "o", "l", "d">>

SiblingFile ==
    <<"/", "s", "r", "v", "/", "w", "w", "w", "-", "o", "l", "d", "/", "x">>

UploadedFile ==
    <<"/", "s", "r", "v", "/", "w", "w", "w", "/", "x", ".", "t", "x", "t">>

EscapedFile ==
    <<"/", "s", "r", "v", "/", "x", ".", "t", "x", "t">>

Str_hi ==
    <<"h", "i">>

\* The disk before the request.  Under root: a file, a directory holding a
\* dangling link, a directory without permissions, and a directory named like
\* the asset prefix.  Beside root: a sibling whose name starts with root's.
\* Under the application: the asset directory and a file beside it.
InitialFiles ==
    ( Slash :> Dir
      @@ <<"/", "s", "r", "v">> :> Dir
      @@ Root :> Dir
      @@ <<"/", "s", "r", "v", "/", "w", "w", "w", "/", "a", ".", "t", "x", "t">> :> File(<<"A", "A", "A", "A", "A">>)
      @@ <<"/", "s", "r", "v", "/", "w", "w", "w", "/", "s", "u", "b">> :> Dir
      @@ <<"/", "s", "r", "v", "/", "w", "w", "w", "/", "s", "u", "b", "/", "g", "o", "n", "e">> :> DanglingLink
      @@ <<"/", "s", "r", "v", "/", "w", "w", "w", "/", "s", "u", "b", "/", "l", "o", "c", "k", "e", "d">> :> LockedDir
      @@ <<"/", "s", "r", "v", "/", "w", "w", "w", "/", "_", "h", "t", "t", "p", "o", "i", "n", "t", "_", "a", "s", "s", "e", "t", "s">> :> Dir
      @@ <<"/", "s", "r", "v", "/", "w", "w", "w", "/", "_", "h", "t", "t", "p", "o", "i", "n", "t", "_", "a", "s", "s", "e", "t", "s", "/", "n", "o", "n", "e", ".", "j", "s">> :> File(<<"j", "s">>)
      @@ SiblingDir :> Dir
      @@ SiblingFile :> File(<<"s", "e", "c", "r", "e", "t">>)
      @@ <<"/", "a", "p", "p">> :> Dir
      @@ <<"/", "a", "p", "p", "/", "d", "i", "s", "t">> :> Dir
      @@ <<"/", "a", "p", "p", "/", "d", "i", "s", "t", "/", "x">> :> File(<<"x">>)
      @@ <<"/", "a", "p", "p", "/", "d", "i", "s", "t", "/", "_", "h", "t", "t", "p", "o", "i", "n", "t", "_", "a", "s", "s", "e", "t", "s">> :> Dir
      @@ <<"/", "a", "p", "p", "/", "d", "i", "s", "t", "/", "_", "h", "t", "t", "p", "o", "i", "n", "t", "_", "a", "s", "s", "e", "t", "s", "/", "s", "t", "y", "l", "e", "s", ".", "c", "s", "s">> :> File(<<"c", "s", "s">>) )

Methods ==
    {"GET", "POST", "PUT"}

\* req.url of the requests: plain paths (a file, directories, a missing
\* entry, a missing entry below a file, entries that cannot be reached), paths with ".." segments that stay
\* under root, leave root for a sibling or leave it altogether, escaped dots,
\* a name with two dots inside, the asset prefix (an asset, a missing asset,
\* a suffix that climbs out of the asset directory), a malformed and an empty
\* URL
Urls ==
    { <<"/">>,
      <<"/", "a", ".", "t", "x", "t">>,
      <<"/", "s", "u", "b">>,
      <<"/", "m", "i", "s", "s", "i", "n", "g", ".", "t", "x", "t">>,
      <<"/", "a", ".", "t", "x", "t", "/", "f">>,
      <<"/", "s", "u", "b", "/", "l", "o", "c", "k", "e", "d">>, <<"/", "s", "u", "b", "/", "l", "o", "c", "k", "e", "d", "/", "f">>,
      <<"/", "s", "u", "b", "/", ".", ".", "/", "a", ".", "t", "x", "t">>,
      <<"/", ".", ".", "/", "w", "w", "w", "-", "o", "l", "d", "/", "x">>,
      <<"/", ".", ".", "/", "w", "w", "w", "-", "o", "l", "d">>,
      <<"/", ".", ".", "/", ".", ".", "/", "e", "t", "c", "/", "p", "a", "s", "s", "w", "d">>,
      <<"/", "%", "2", "e", "%", "2", "e", "/", "w", "w", "w", "-", "o", "l", "d", "/", "x">>,
      <<"/", "a", ".", ".", "b">>,
      <<"/", "_", "h", "t", "t", "p", "o", "i", "n", "t", "_", "a", "s", "s", "e", "t", "s", "/", "s", "t", "y", "l", "e", "s", ".", "c", "s", "s">>,
      <<"/", "_", "h", "t", "t", "p", "o", "i", "n", "t", "_", "a", "s", "s", "e", "t", "s", "/", "n", "o", "n", "e", ".", "j", "s">>,
      <<"/", "_", "h", "t", "t", "p", "o", "i", "n", "t", "_", "a", "s", "s", "e", "t", "s", "/", ".", ".", "/", "x">>,
      <<"/", "%", "z", "z">>,
      <<>> }

Str_multipart ==
    <<"m", "u", "l", "t", "i", "p", "a", "r", "t", "/", "f", "o", "r", "m", "-", "d", "a", "t", "a">>

Str_boundaryEq ==
    <<"b", "o", "u", "n", "d", "a", "r", "y", "=">>

\* req.headers['content-type']: absent, not multipart, multipart without a
\* boundary parameter, multipart with boundary B
ContentTypes ==
    { [present |-> FALSE, value |-> <<>>],
      [present |-> TRUE, value |-> <<"a", "p", "p", "l", "i", "c", "a", "t", "i", "o", "n", "/", "j", "s", "o", "n">>],
      [present |-> TRUE, value |-> Str_multipart],
      [present |-> TRUE, value |-> Str_multipart \o <<";", " ">> \o Str_boundaryEq \o <<"B">>] }

\* Request bodies are built from: the head of a part (delimiter and
\* headers) for the file name x.txt and for a file name that climbs out of
\* the directory, and the data of the part with the closing delimiter.
PartHead ==
    <<"-", "-", "B", CR, LF, "C", "o", "n", "t", "e", "n", "t", "-", "D", "i", "s", "p", "o", "s",
      "i", "t", "i", "o", "n", ":", " ", "f", "o", "r", "m", "-", "d", "a", "t", "a", ";", " ",
      "n", "a", "m", "e", "=", "\"", "f", "i", "l", "e", "\"", ";", " ", "f", "i", "l", "e", "n",
      "a", "m", "e", "=", "\"", "x", ".", "t", "x", "t", "\"", CR, LF, CR, LF>>

PartHeadClimbing ==
    <<"-", "-", "B", CR, LF, "C", "o", "n", "t", "e", "n", "t", "-", "D", "i", "s", "p", "o", "s",
      "i", "t", "i", "o", "n", ":", " ", "f", "o", "r", "m", "-", "d", "a", "t", "a", ";", " ",
      "n", "a", "m", "e", "=", "\"", "f", "i", "l", "e", "\"", ";", " ", "f", "i", "l", "e", "n",
      "a", "m", "e", "=", "\"", ".", ".", "/", "x", ".", "t", "x", "t", "\"", CR, LF, CR, LF>>

PartTail ==
    <<"h", "i", CR, LF, "-", "-", "B", "-", "-", CR, LF>>

\* the multipart body with the one part {name: file, filename: x.txt, data: hi}
UploadBody ==
    PartHead \o PartTail

\* the same body with the file name ../x.txt
ClimbingBody ==
    PartHeadClimbing \o PartTail

\* the head of a part for the file name a.txt, a file that exists under root
PartHeadExisting ==
    <<"-", "-", "B", CR, LF, "C", "o", "n", "t", "e", "n", "t", "-", "D", "i", "s", "p", "o", "s",
      "i", "t", "i", "o", "n", ":", " ", "f", "o", "r", "m", "-", "d", "a", "t", "a", ";", " ",
      "n", "a", "m", "e", "=", "\"", "f", "i", "l", "e", "\"", ";", " ", "f", "i", "l", "e", "n",
      "a", "m", "e", "=", "\"", "a", ".", "t", "x", "t", "\"", CR, LF, CR, LF>>

\* a body with two parts that carry the same file name a.txt, data hi and yo
TwoPartBody ==
    PartHeadExisting \o Str_hi \o CRLF
    \o PartHeadExisting \o <<"y", "o">> \o CRLF
    \o <<"-", "-", "B", "-", "-", CR, LF>>

\* The chunks a 'data' event may deliver: a whole multipart body, a run of
\* MAX_BODY_SIZE bytes, and a run of one byte more than that.
ChunkSet ==
    { UploadBody, ClimbingBody, TwoPartBody, <<FILL>>, <<FILL, "Z">> }

\* bound: the number of 'data' events one request stream emits
MaxChunks ==
    2

\* ------------------------------------------------------------------------
\* State
\* ------------------------------------------------------------------------

VARIABLES
    debug,        \* config.debug
    pc,           \* where executePipeline stands for the request
    req,          \* the request: method, url, headers['content-type']
    stream,       \* req as a readable stream: paused, flowing, ended, errored
    emitted,      \* the chunks the stream has emitted with 'data' events, in order
    chunks,       \* collectBody: const chunks
    totalSize,    \* collectBody: let totalSize
    collect,      \* the promise collectBody returned
    context,      \* the RequestContext
    result,       \* the HandlerResult the router returned
    parts,        \* directoryUploadHandler: the parts still to be written
    statusCode,   \* executePipeline: let statusCode
    caught,       \* the error the catch block of executePipeline received
    res,          \* the ServerResponse
    pipe,         \* the read stream a handler piped into res
    files,        \* the disk
    ops,          \* the filesystem calls made for the request, in order
    stages,       \* the stages of the pipeline that started and how they ended
    log,          \* the lines written to the console
    crashed,      \* an 'error' event without listener ended the process
    mp,           \* the multipart codec on its own: input, encoded body, decoded parts
    ls,           \* the directory listing on its own: request path, names read, page
    other,        \* the request-local state of a second request, while the first runs
    fmt,          \* formatFileSize on its own: the bytes and the text
    scan          \* the loop of parseMultipart turn by turn: body, offset, parts

\* the variables of the request pipeline
pipelineVars ==
    <<debug, pc, req, stream, emitted, chunks, totalSize, collect, context, result,
      parts, statusCode, caught, res, pipe, files, ops, stages, log, crashed>>

vars ==
    <<pipelineVars, mp, ls, other, fmt, scan>>

NoRequest ==
    [method |-> "", url |-> <<>>, contentType |-> [present |-> FALSE, value |-> <<>>]]

NoContext ==
    [requestPath |-> <<>>, filePath |-> <<>>, body |-> NoBody]

Promise(state, value, error) ==
    [state |-> state, value |-> value, error |-> error]

NoPromise ==
    Promise("none", <<>>, NoError)

NoPipe ==
    [state |-> "none", path |-> <<>>]

\* a fresh http.ServerResponse: statusCode 200, nothing written
NewResponse ==
    [statusCode |-> 200, contentType |-> "", headersSent |-> FALSE, ended |-> FALSE,
     text |-> "", data |-> <<>>, page |-> <<>>]

\* res.writeHead(statusCode, {'Content-Type': contentType})
writeHead(r, code, contentType) ==
    [r EXCEPT !.statusCode = code, !.contentType = contentType, !.headersSent = TRUE]

\* res.end(text)
endText(r, text) ==
    [r EXCEPT !.ended = TRUE, !.headersSent = TRUE, !.text = text]

Started(stage) ==
    [stage |-> stage, event |-> "start"]

Completed(stage) ==
    [stage |-> stage, event |-> "ok"]

Failed(stage) ==
    [stage |-> stage, event |-> "fail"]

\* the multipart codec is not exercised on its own
NoMultipart ==
    [stage |-> "unused", boundary |-> <<>>, fields |-> <<>>, body |-> <<>>, decoded |-> <<>>]

\* the loop of parseMultipart is not followed turn by turn
NoScan ==
    [stage |-> "unused", body |-> <<>>, boundary |-> <<>>, end |-> -1, parts |-> <<>>,
     turns |-> 0]

\* formatFileSize is not exercised on its own
NoFormat ==
    [stage |-> "unused", bytes |-> <<0>>, text |-> NoSize]

\* the directory listing is not exercised on its own
NoListing ==
    [stage |-> "unused", requestPath |-> <<>>, names |-> <<>>, page |-> <<>>]

\* what executePipeline and collectBody hold for one request in their locals
\* and in the request, response and context objects, before the request
\* arrives
IdleRequest ==
    [pc |-> "idle", req |-> NoRequest, stream |-> "paused", emitted |-> <<>>,
     chunks |-> <<>>, totalSize |-> 0, collect |-> NoPromise, context |-> NoContext,
     result |-> HandlerResult("", 0, ""), parts |-> <<>>, statusCode |-> 200,
     caught |-> NoError, res |-> NewResponse, pipe |-> NoPipe, ops |-> <<>>,
     stages |-> <<>>]

\* a server that has received no request yet
PipelineInit ==
    /\ other = IdleRequest
    /\ pc = "idle"
    /\ req = NoRequest
    /\ stream = "paused"
    /\ emitted = <<>>
    /\ chunks = <<>>
    /\ totalSize = 0
    /\ collect = NoPromise
    /\ context = NoContext
    /\ result = HandlerResult("", 0, "")
    /\ parts = <<>>
    /\ statusCode = 200
    /\ caught = NoError
    /\ res = NewResponse
    /\ pipe = NoPipe
    /\ files = InitialFiles
    /\ ops = <<>>
    /\ stages = <<>>
    /\ log = <<>>
    /\ crashed = FALSE

Init ==
    /\ debug \in BOOLEAN
    /\ PipelineInit
    /\ mp = NoMultipart
    /\ ls = NoListing
    /\ fmt = NoFormat
    /\ scan = NoScan

\* ------------------------------------------------------------------------
\* serve.ts: the 'request' event calls executePipeline(req, res, config)
\* ------------------------------------------------------------------------

Request(method, url, contentType) ==
    /\ pc = "idle"
    /\ ~crashed
    /\ UNCHANGED <<mp, ls, other, fmt, scan>>
    /\ req' = [method |-> method, url |-> url, contentType |-> contentType]
    /\ pc' = "createRequestContext"
    /\ UNCHANGED <<debug, stream, emitted, chunks, totalSize, collect, context, result,
                   parts, statusCode, caught, res, pipe, files, ops, stages, log, crashed>>

\* ------------------------------------------------------------------------
\* middleware/pipeline.ts: executePipeline, lines 17-26
\* ------------------------------------------------------------------------

\* line 19: const context = await createRequestContext(req, res, config)
CreateContext ==
    /\ pc = "createRequestContext"
    /\ ~crashed
    /\ UNCHANGED <<mp, ls, other, fmt, scan>>
    /\ LET r == createRequestContext(req.url, Root) IN
       IF r.ok
       THEN /\ context' = r.value
            /\ pc' = "security"
            /\ stages' = stages \o <<Started("context"), Completed("context")>>
            /\ UNCHANGED caught
       ELSE /\ caught' = r.error
            /\ pc' = "catch"
            /\ stages' = stages \o <<Started("context"), Failed("context")>>
            /\ UNCHANGED context
    /\ UNCHANGED <<debug, req, stream, emitted, chunks, totalSize, collect, result,
                   parts, statusCode, res, pipe, files, ops, log, crashed>>

\* Security called without await: its rejection is not seen by the pipeline
Security_notAwaited ==
    /\ pc = "security"
    /\ ~crashed
    /\ UNCHANGED <<mp, ls, other, fmt, scan>>
    /\ pc' = "bodyCollector"
    /\ stages' = stages \o <<Started("security"),
                              IF security(context.requestPath, context.filePath, Root).ok
                              THEN Completed("security") ELSE Failed("security")>>
    /\ UNCHANGED <<debug, req, stream, emitted, chunks, totalSize, collect, context, result,
                   parts, statusCode, caught, res, pipe, files, ops, log, crashed>>

\* line 22: await security(context)
Security ==
    /\ pc = "security"
    /\ ~crashed
    /\ UNCHANGED <<mp, ls, other, fmt, scan>>
    /\ LET r == security(context.requestPath, context.filePath, Root) IN
       IF r.ok
       THEN /\ pc' = "bodyCollector"
            /\ stages' = stages \o <<Started("security"), Completed("security")>>
            /\ UNCHANGED caught
       ELSE /\ caught' = r.error
            /\ pc' = "catch"
            /\ stages' = stages \o <<Started("security"), Failed("security")>>
    /\ UNCHANGED <<debug, req, stream, emitted, chunks, totalSize, collect, context, result,
                   parts, statusCode, res, pipe, files, ops, log, crashed>>

\* ------------------------------------------------------------------------
\* middleware/body-collector.ts
\* ------------------------------------------------------------------------

\* line 23 of executePipeline calls bodyCollector: collectBody creates the
\* promise and attaches the 'data', 'end' and 'error' listeners, which starts
\* the flow of the stream
BodyCollectorStart ==
    /\ pc = "bodyCollector"
    /\ ~crashed
    /\ UNCHANGED <<mp, ls, other, fmt, scan>>
    /\ collect' = Promise("pending", <<>>, NoError)
    /\ stream' = "flowing"
    /\ pc' = "awaitBody"
    /\ stages' = Append(stages, Started("bodyCollector"))
    /\ UNCHANGED <<debug, req, emitted, chunks, totalSize, context, result,
                   parts, statusCode, caught, res, pipe, files, ops, log, crashed>>

\* resolve as a plain callback: the last call decides
resolve_lastCallWins(p, value) ==
    Promise("resolved", value, NoError)

\* resolve and reject settle a promise that is pending and do nothing else
resolve(p, value) ==
    IF p.state = "pending" THEN Promise("resolved", value, NoError) ELSE p

reject(p, error) ==
    IF p.state = "pending" THEN Promise("rejected", <<>>, error) ELSE p

\* OnData with the size test applied to the chunk instead of the running total
OnData_perChunkLimit(chunk) ==
    /\ stream = "flowing"
    /\ ~crashed
    /\ UNCHANGED <<mp, ls, other, fmt, scan>>
    /\ Len(emitted) < MaxChunks
    /\ emitted' = Append(emitted, chunk)
    /\ totalSize' = totalSize + ByteLength(chunk)
    /\ IF ByteLength(chunk) > MAX_BODY_SIZE
       THEN /\ collect' = reject(collect, GenericError("Request body too large"))
            /\ UNCHANGED chunks
       ELSE /\ chunks' = Append(chunks, chunk)
            /\ UNCHANGED collect
    /\ UNCHANGED <<debug, pc, req, stream, context, result, parts, statusCode, caught,
                   res, pipe, files, ops, stages, log, crashed>>

\* OnData putting the chunk in front of the chunks received before
OnData_unshift(chunk) ==
    /\ stream = "flowing"
    /\ ~crashed
    /\ UNCHANGED <<mp, ls, other, fmt, scan>>
    /\ Len(emitted) < MaxChunks
    /\ emitted' = Append(emitted, chunk)
    /\ totalSize' = totalSize + ByteLength(chunk)
    /\ IF totalSize + ByteLength(chunk) > MAX_BODY_SIZE
       THEN /\ collect' = reject(collect, GenericError("Request body too large"))
            /\ UNCHANGED chunks
       ELSE /\ chunks' = <<chunk>> \o chunks
            /\ UNCHANGED collect
    /\ UNCHANGED <<debug, pc, req, stream, context, result, parts, statusCode, caught,
                   res, pipe, files, ops, stages, log, crashed>>

\* OnData storing the chunk before the size test
OnData_storeThenTest(chunk) ==
    /\ stream = "flowing"
    /\ ~crashed
    /\ UNCHANGED <<mp, ls, other, fmt, scan>>
    /\ Len(emitted) < MaxChunks
    /\ emitted' = Append(emitted, chunk)
    /\ totalSize' = totalSize + ByteLength(chunk)
    /\ chunks' = Append(chunks, chunk)
    /\ IF totalSize + ByteLength(chunk) > MAX_BODY_SIZE
       THEN collect' = reject(collect, GenericError("Request body too large"))
       ELSE UNCHANGED collect
    /\ UNCHANGED <<debug, pc, req, stream, context, result, parts, statusCode, caught,
                   res, pipe, files, ops, stages, log, crashed>>

\* OnData rejecting a total that reaches the limit instead of one that exceeds it
OnData_atLeast(chunk) ==
    /\ stream = "flowing"
    /\ ~crashed
    /\ UNCHANGED <<mp, ls, other, fmt, scan>>
    /\ Len(emitted) < MaxChunks
    /\ emitted' = Append(emitted, chunk)
    /\ totalSize' = totalSize + ByteLength(chunk)
    /\ IF totalSize + ByteLength(chunk) >= MAX_BODY_SIZE
       THEN /\ collect' = reject(collect, GenericError("Request body too large"))
            /\ UNCHANGED chunks
       ELSE /\ chunks' = Append(chunks, chunk)
            /\ UNCHANGED collect
    /\ UNCHANGED <<debug, pc, req, stream, context, result, parts, statusCode, caught,
                   res, pipe, files, ops, stages, log, crashed>>

\* req.on('data', chunk => ...)
OnData(chunk) ==
    /\ stream = "flowing"
    /\ ~crashed
    /\ UNCHANGED <<mp, ls, other, fmt, scan>>
    /\ Len(emitted) < MaxChunks
    /\ emitted' = Append(emitted, chunk)
    /\ totalSize' = totalSize + ByteLength(chunk)
    /\ IF totalSize + ByteLength(chunk) > MAX_BODY_SIZE
       THEN /\ collect' = reject(collect, GenericError("Request body too large"))
            /\ UNCHANGED chunks
       ELSE /\ chunks' = Append(chunks, chunk)
            /\ UNCHANGED collect
    /\ UNCHANGED <<debug, pc, req, stream, context, result, parts, statusCode, caught,
                   res, pipe, files, ops, stages, log, crashed>>

\* req.on('end', () => resolve(Buffer.concat(chunks)))
OnEnd ==
    /\ stream = "flowing"
    /\ ~crashed
    /\ UNCHANGED <<mp, ls, other, fmt, scan>>
    /\ stream' = "ended"
    /\ collect' = resolve(collect, BufferConcat(chunks))
    /\ UNCHANGED <<debug, pc, req, emitted, chunks, totalSize, context, result, parts,
                   statusCode, caught, res, pipe, files, ops, stages, log, crashed>>

\* the error a broken connection raises on the request stream
StreamError ==
    Err("Error", "aborted", "ECONNRESET")

\* OnError handing over the chunks received so far instead of the error
OnError_partialBody ==
    /\ stream = "flowing"
    /\ ~crashed
    /\ UNCHANGED <<mp, ls, other, fmt, scan>>
    /\ stream' = "errored"
    /\ collect' = resolve(collect, BufferConcat(chunks))
    /\ UNCHANGED <<debug, pc, req, emitted, chunks, totalSize, context, result, parts,
                   statusCode, caught, res, pipe, files, ops, stages, log, crashed>>

\* req.on('error', reject)
OnError ==
    /\ stream = "flowing"
    /\ ~crashed
    /\ UNCHANGED <<mp, ls, other, fmt, scan>>
    /\ stream' = "errored"
    /\ collect' = reject(collect, StreamError)
    /\ UNCHANGED <<debug, pc, req, emitted, chunks, totalSize, context, result, parts,
                   statusCode, caught, res, pipe, files, ops, stages, log, crashed>>

\* bodyCollector: context.body = await collectBody(context.req)
BodyCollectorSettle ==
    /\ pc = "awaitBody"
    /\ ~crashed
    /\ UNCHANGED <<mp, ls, other, fmt, scan>>
    /\ collect.state \in {"resolved", "rejected"}
    /\ IF collect.state = "resolved"
       THEN /\ context' = [context EXCEPT !.body = [set |-> TRUE, data |-> collect.value]]
            /\ pc' = "router"
            /\ stages' = Append(stages, Completed("bodyCollector"))
            /\ UNCHANGED caught
       ELSE /\ caught' = collect.error
            /\ pc' = "catch"
            /\ stages' = Append(stages, Failed("bodyCollector"))
            /\ UNCHANGED context
    /\ UNCHANGED <<debug, req, stream, emitted, chunks, totalSize, collect, result,
                   parts, statusCode, res, pipe, files, ops, log, crashed>>

\* ------------------------------------------------------------------------
\* middleware/logger.ts
\* ------------------------------------------------------------------------

LogLine(kind, method, path, status, data) ==
    [kind |-> kind, method |-> method, path |-> path, status |-> status, data |-> data]

\* logger writing the body of a POST whether debug is on or off
logger_bodyAlways(method, requestPath, body, isDebug, status) ==
    IF StartsWith(requestPath, AssetPrefix) /\ ~isDebug THEN <<>>
    ELSE <<LogLine("request", method, requestPath, status, <<>>)>>
         \o (IF method = "POST" /\ body.set
             THEN <<LogLine("body", method, requestPath, status, body.data)>>
             ELSE <<>>)

\* logger(context, statusCode): the lines it writes with console.log
logger(method, requestPath, body, isDebug, status) ==
    IF StartsWith(requestPath, AssetPrefix) /\ ~isDebug THEN <<>>
    ELSE <<LogLine("request", method, requestPath, status, <<>>)>>
         \o (IF isDebug /\ method = "POST" /\ body.set
             THEN <<LogLine("body", method, requestPath, status, body.data)>>
             ELSE <<>>)

\* ------------------------------------------------------------------------
\* middleware/pipeline.ts: executePipeline, lines 26-44
\* ------------------------------------------------------------------------

\* line 26: const result = await router(context), and the branch on it
Route ==
    /\ pc = "router"
    /\ ~crashed
    /\ UNCHANGED <<mp, ls, other, fmt, scan>>
    /\ LET r == router(context.requestPath, req.method,
                       StatOutcome(files, context.filePath)) IN
       /\ result' = r
       /\ pc' = IF r.handler # "" THEN r.handler
                ELSE IF r.statusCode # 0 THEN "respond"
                ELSE "logger"
       /\ stages' = stages \o <<Started("router"), Completed("router")>>
                      \o (IF r.handler # "" THEN <<Started("handler")>> ELSE <<>>)
    /\ ops' = ops \o routerOps(context.requestPath, context.filePath)
    /\ UNCHANGED <<debug, req, stream, emitted, chunks, totalSize, collect, context,
                   parts, statusCode, caught, res, pipe, files, log, crashed>>

\* lines 32-41: the direct response for a result without handler
Respond ==
    /\ pc = "respond"
    /\ ~crashed
    /\ UNCHANGED <<mp, ls, other, fmt, scan>>
    /\ statusCode' = result.statusCode
    /\ res' = endText(writeHead(res, result.statusCode, "text/plain"), result.message)
    /\ pc' = "logger"
    /\ UNCHANGED <<debug, req, stream, emitted, chunks, totalSize, collect, context, result,
                   parts, caught, pipe, files, ops, stages, log, crashed>>

\* line 31: statusCode = context.res.statusCode || 200
orDefault(code) ==
    IF code = 0 THEN 200 ELSE code

\* line 44: await logger(context, statusCode)
Logger ==
    /\ pc = "logger"
    /\ ~crashed
    /\ UNCHANGED <<mp, ls, other, fmt, scan>>
    /\ log' = log \o logger(req.method, context.requestPath, context.body, debug, statusCode)
    /\ stages' = stages \o <<Started("logger"), Completed("logger")>>
    /\ pc' = "done"
    /\ UNCHANGED <<debug, req, stream, emitted, chunks, totalSize, collect, context, result,
                   parts, statusCode, caught, res, pipe, files, ops, crashed>>

\* ------------------------------------------------------------------------
\* middleware/router.ts: the handlers
\* ------------------------------------------------------------------------

\* assetHandler: path.join(__dirname, '..', '_httpoint_assets', requestPath.substring(17))
publicFilePath(requestPath) ==
    pathJoinAll(<<Dirname, DotDot, Str_httpoint_assets, SubarrayFrom(requestPath, 17)>>)

\* a handler that sets the headers, pipes a read stream into res and returns
StartPipe(path) ==
    /\ res' = [res EXCEPT !.contentType = getMimeType(path), !.statusCode = 200]
    /\ pipe' = [state |-> "opening", path |-> path]
    /\ ops' = Append(ops, FsOp("createReadStream", path))
    /\ statusCode' = orDefault(200)
    /\ stages' = Append(stages, Completed("handler"))
    /\ pc' = "logger"
    /\ UNCHANGED <<debug, req, stream, emitted, chunks, totalSize, collect, context, result,
                   parts, caught, files, log, crashed>>

AssetHandler ==
    /\ pc = "assetHandler"
    /\ ~crashed
    /\ UNCHANGED <<mp, ls, other, fmt, scan>>
    /\ StartPipe(publicFilePath(context.requestPath))

FileHandler ==
    /\ pc = "fileHandler"
    /\ ~crashed
    /\ UNCHANGED <<mp, ls, other, fmt, scan>>
    /\ StartPipe(context.filePath)

\* The read stream opens its file after the handler and the pipeline have
\* returned.  On success pipe() copies the file into res and ends it; on
\* failure the stream emits 'error', for which nobody listens.
ReadStreamOpen ==
    /\ pipe.state = "opening"
    /\ pc = "done"
    /\ ~crashed
    /\ UNCHANGED <<mp, ls, other, fmt, scan>>
    /\ IF StatOutcome(files, pipe.path) = "file"
       THEN /\ res' = [res EXCEPT !.headersSent = TRUE, !.ended = TRUE,
                                  !.data = files[FsKey(pipe.path)].data]
            /\ pipe' = [pipe EXCEPT !.state = "finished"]
            /\ ops' = Append(ops, FsOp("read", pipe.path))
            /\ UNCHANGED crashed
       ELSE /\ pipe' = [pipe EXCEPT !.state = "error"]
            /\ crashed' = TRUE
            /\ UNCHANGED <<res, ops>>
    /\ UNCHANGED <<debug, pc, req, stream, emitted, chunks, totalSize, collect, context,
                   result, parts, statusCode, caught, files, stages, log>>

\* directoryListingHandler
DirectoryListingHandler ==
    /\ pc = "directoryListingHandler"
    /\ ~crashed
    /\ UNCHANGED <<mp, ls, other, fmt, scan>>
    /\ \E names \in Orderings(Children(files, context.filePath)) :
         LET listing == generateDirectoryListing(files, context.filePath,
                                                 context.requestPath, names) IN
         /\ ops' = ops \o listing.ops
         /\ IF listing.ok
            THEN /\ res' = [res EXCEPT !.statusCode = 200, !.contentType = "text/html",
                                       !.headersSent = TRUE, !.ended = TRUE,
                                       !.page = listing.page]
                 /\ statusCode' = orDefault(200)
                 /\ stages' = Append(stages, Completed("handler"))
                 /\ pc' = "logger"
                 /\ UNCHANGED caught
            ELSE /\ caught' = listing.error
                 /\ stages' = Append(stages, Failed("handler"))
                 /\ pc' = "catch"
                 /\ UNCHANGED <<res, statusCode>>
    /\ UNCHANGED <<debug, req, stream, emitted, chunks, totalSize, collect, context, result,
                   parts, pipe, files, log, crashed>>

\* contentType.match(/boundary=(.+)/)
matchBoundary(contentType) ==
    LET p == IndexOf(contentType, Str_boundaryEq, 0)
    IN  IF p = -1 \/ p + Len(Str_boundaryEq) >= Len(contentType) THEN NoMatch
        ELSE [matched |-> TRUE,
              group |-> SubarrayFrom(contentType, p + Len(Str_boundaryEq))]

\* uploadRejection without the test for the boundary parameter
uploadRejection_noBoundaryTest(contentType, body) ==
    IF ~contentType.present \/ Len(contentType.value) = 0
       \/ ~StartsWith(contentType.value, Str_multipart)
    THEN "Invalid content type"
    ELSE ""

\* directoryUploadHandler, lines 78-90: the text of the 400 response, or ""
\* when the request passes both checks
uploadRejection(contentType, body) ==
    IF ~contentType.present \/ Len(contentType.value) = 0
       \/ ~StartsWith(contentType.value, Str_multipart)
    THEN "Invalid content type"
    ELSE IF ~matchBoundary(contentType.value).matched \/ ~body.set
    THEN "Invalid boundary or request body"
    ELSE ""

\* directoryUploadHandler, lines 78-93
UploadBegin ==
    /\ pc = "directoryUploadHandler"
    /\ ~crashed
    /\ UNCHANGED <<mp, ls, other, fmt, scan>>
    /\ IF uploadRejection(req.contentType, context.body) # ""
       THEN /\ res' = endText([res EXCEPT !.statusCode = 400],
                              uploadRejection(req.contentType, context.body))
            /\ statusCode' = orDefault(400)
            /\ stages' = Append(stages, Completed("handler"))
            /\ pc' = "logger"
            /\ UNCHANGED parts
       ELSE /\ parts' = parseMultipart(context.body.data,
                                       matchBoundary(req.contentType.value).group)
            /\ pc' = "writeFile"
            /\ UNCHANGED <<res, statusCode, stages>>
    /\ UNCHANGED <<debug, req, stream, emitted, chunks, totalSize, collect, context, result,
                   caught, pipe, files, ops, log, crashed>>

\* the path a part is written to
uploadPath(filePath, part) ==
    pathJoin(filePath, part.filename)

\* UploadWrite with all writes started together: they complete in any order
UploadWrite_anyOrder ==
    /\ pc = "writeFile"
    /\ ~crashed
    /\ UNCHANGED <<mp, ls, other, fmt, scan>>
    /\ parts # <<>>
    /\ \E k \in 1..Len(parts) :
         LET target == uploadPath(context.filePath, parts[k]) IN
         /\ ops' = Append(ops, FsOp("writeFile", target))
         /\ IF WriteOutcome(files, target) = "ok"
            THEN /\ files' = WriteFile(files, target, parts[k].data)
                 /\ parts' = SubSeq(parts, 1, k - 1) \o SubSeq(parts, k + 1, Len(parts))
                 /\ UNCHANGED <<pc, caught, stages>>
            ELSE /\ caught' = ErrnoException(WriteOutcome(files, target))
                 /\ stages' = Append(stages, Failed("handler"))
                 /\ pc' = "catch"
                 /\ UNCHANGED <<files, parts>>
    /\ UNCHANGED <<debug, req, stream, emitted, chunks, totalSize, collect, context, result,
                   statusCode, res, pipe, log, crashed>>

\* UploadWrite undoing the writes of the request when a write fails
UploadWrite_rollback ==
    /\ pc = "writeFile"
    /\ ~crashed
    /\ UNCHANGED <<mp, ls, other, fmt, scan>>
    /\ parts # <<>>
    /\ LET target == uploadPath(context.filePath, Head(parts)) IN
       /\ ops' = Append(ops, FsOp("writeFile", target))
       /\ IF WriteOutcome(files, target) = "ok"
          THEN /\ files' = WriteFile(files, target, Head(parts).data)
               /\ parts' = Tail(parts)
               /\ UNCHANGED <<pc, caught, stages>>
          ELSE /\ caught' = ErrnoException(WriteOutcome(files, target))
               /\ stages' = Append(stages, Failed("handler"))
               /\ pc' = "catch"
               /\ files' = InitialFiles
               /\ UNCHANGED parts
    /\ UNCHANGED <<debug, req, stream, emitted, chunks, totalSize, collect, context, result,
                   statusCode, res, pipe, log, crashed>>

\* lines 95-98: one turn of the loop, await fs.writeFile(uploadPath, part.data);
\* the loop goes on to the next part once the write has completed
UploadWrite ==
    /\ pc = "writeFile"
    /\ ~crashed
    /\ UNCHANGED <<mp, ls, other, fmt, scan>>
    /\ parts # <<>>
    /\ LET target == uploadPath(context.filePath, Head(parts)) IN
       /\ ops' = Append(ops, FsOp("writeFile", target))
       /\ IF WriteOutcome(files, target) = "ok"
          THEN /\ files' = WriteFile(files, target, Head(parts).data)
               /\ parts' = Tail(parts)
               /\ UNCHANGED <<pc, caught, stages>>
          ELSE /\ caught' = ErrnoException(WriteOutcome(files, target))
               /\ stages' = Append(stages, Failed("handler"))
               /\ pc' = "catch"
               /\ UNCHANGED <<files, parts>>
    /\ UNCHANGED <<debug, req, stream, emitted, chunks, totalSize, collect, context, result,
                   statusCode, res, pipe, log, crashed>>

\* lines 100-102
UploadEnd ==
    /\ pc = "writeFile"
    /\ ~crashed
    /\ UNCHANGED <<mp, ls, other, fmt, scan>>
    /\ parts = <<>>
    /\ res' = endText([res EXCEPT !.statusCode = 200, !.contentType = "text/plain"],
                      "Files uploaded successfully")
    /\ statusCode' = orDefault(200)
    /\ stages' = Append(stages, Completed("handler"))
    /\ pc' = "logger"
    /\ UNCHANGED <<debug, req, stream, emitted, chunks, totalSize, collect, context, result,
                   parts, caught, pipe, files, ops, log, crashed>>

\* ------------------------------------------------------------------------
\* middleware/pipeline.ts: executePipeline, the catch block (lines 46-80)
\* ------------------------------------------------------------------------

\* errorResponse comparing the message with a text collectBody never uses
errorResponse_otherMessage(error) ==
    IF error.class = "SecurityViolationError"
    THEN [statusCode |-> 403, text |-> "Forbidden"]
    ELSE IF error.class # "none" /\ error.message = "Request Entity Too Large"
    THEN [statusCode |-> 413, text |-> "Request Entity Too Large"]
    ELSE [statusCode |-> 500, text |-> "Internal Server Error"]

\* errorResponse sending the message of an unclassified error as the body
errorResponse_sendMessage(error) ==
    IF error.class = "SecurityViolationError"
    THEN [statusCode |-> 403, text |-> "Forbidden"]
    ELSE IF error.class # "none" /\ error.message = "Request body too large"
    THEN [statusCode |-> 413, text |-> "Request Entity Too Large"]
    ELSE [statusCode |-> 500, text |-> error.message]

\* lines 48-60: the status and the body for an error
errorResponse(error) ==
    IF error.class = "SecurityViolationError"
    THEN [statusCode |-> 403, text |-> "Forbidden"]
    ELSE IF error.class # "none" /\ error.message = "Request body too large"
    THEN [statusCode |-> 413, text |-> "Request Entity Too Large"]
    ELSE [statusCode |-> 500, text |-> "Internal Server Error"]

Str_unknown ==
    <<"u", "n", "k", "n", "o", "w", "n">>

\* `${req.method} ${req.url || 'unknown'} ${statusCode}`
rawLogLine(method, url, status) ==
    LogLine("request", method, IF Len(url) = 0 THEN Str_unknown ELSE url, status, <<>>)

\* lines 62-79: what the catch block writes to the console
catchLog(error, method, url, isDebug, status) ==
    (IF isDebug THEN <<LogLine("pipeline-error", error.message, <<>>, 0, <<>>)>> ELSE <<>>)
    \o (IF error.class = "SecurityViolationError"
        THEN <<rawLogLine(method, url, status)>>
        ELSE LET fallback == createRequestContext(url, Root) IN
             IF fallback.ok
             THEN logger(method, fallback.value.requestPath, fallback.value.body,
                         isDebug, status)
             ELSE <<rawLogLine(method, url, status)>>)

\* Catch without the inner try around the fallback context: a second failure
\* of createRequestContext leaves executePipeline as a rejection
Catch_noInnerTry ==
    /\ pc = "catch"
    /\ ~crashed
    /\ UNCHANGED <<mp, ls, other, fmt, scan>>
    /\ statusCode' = errorResponse(caught).statusCode
    /\ IF res.headersSent
       THEN /\ pc' = "rejected"
            /\ UNCHANGED <<res, log, stages>>
       ELSE /\ res' = endText(writeHead(res, errorResponse(caught).statusCode, "text/plain"),
                              errorResponse(caught).text)
            /\ IF caught.class # "SecurityViolationError"
                  /\ ~createRequestContext(req.url, Root).ok
               THEN /\ pc' = "rejected"
                    /\ UNCHANGED <<log, stages>>
               ELSE /\ log' = log \o catchLog(caught, req.method, req.url, debug,
                                              errorResponse(caught).statusCode)
                    /\ stages' = stages \o <<Started("error"), Completed("error")>>
                    /\ pc' = "done"
    /\ UNCHANGED <<debug, req, stream, emitted, chunks, totalSize, collect, context, result,
                   parts, caught, pipe, files, ops, crashed>>

Catch ==
    /\ pc = "catch"
    /\ ~crashed
    /\ UNCHANGED <<mp, ls, other, fmt, scan>>
    /\ statusCode' = errorResponse(caught).statusCode
    /\ IF res.headersSent
       THEN \* res.writeHead throws ERR_HTTP_HEADERS_SENT out of the catch block
            /\ pc' = "rejected"
            /\ UNCHANGED <<res, log, stages>>
       ELSE /\ res' = endText(writeHead(res, errorResponse(caught).statusCode, "text/plain"),
                              errorResponse(caught).text)
            /\ log' = log \o catchLog(caught, req.method, req.url, debug,
                                      errorResponse(caught).statusCode)
            /\ stages' = stages \o <<Started("error"), Completed("error")>>
            /\ pc' = "done"
    /\ UNCHANGED <<debug, req, stream, emitted, chunks, totalSize, collect, context, result,
                   parts, caught, pipe, files, ops, crashed>>

\* ------------------------------------------------------------------------
\* The specification of one request
\* ------------------------------------------------------------------------

Next ==
    \/ \E m \in Methods, u \in Urls, ct \in ContentTypes : Request(m, u, ct)
    \/ CreateContext
    \/ Security
    \/ BodyCollectorStart
    \/ \E c \in ChunkSet : OnData(c)
    \/ OnEnd
    \/ OnError
    \/ BodyCollectorSettle
    \/ Route
    \/ Respond
    \/ AssetHandler
    \/ FileHandler
    \/ ReadStreamOpen
    \/ DirectoryListingHandler
    \/ UploadBegin
    \/ UploadWrite
    \/ UploadEnd
    \/ Logger
    \/ Catch

Spec ==
    Init /\ [][Next]_vars

\* ------------------------------------------------------------------------
\* Two requests at once: serve.ts calls executePipeline for every 'request'
\* event; the calls run on one thread and change places where one of them
\* awaits
\* ------------------------------------------------------------------------

\* the requests of the two pipelines: a listing, an upload of x.txt, a file,
\* the file x.txt (missing until an upload has written it), an asset and a
\* path that climbs out of the root
ConcurrentRequests ==
    LET multipart == [present |-> TRUE,
                      value |-> Str_multipart \o <<";", " ">> \o Str_boundaryEq \o <<"B">>]
        none == [present |-> FALSE, value |-> <<>>]
    IN  { <<"GET", <<"/", "s", "u", "b">>, none>>,
          <<"POST", <<"/">>, multipart>>,
          <<"GET", <<"/", "a", ".", "t", "x", "t">>, none>>,
          <<"GET", <<"/", "x", ".", "t", "x", "t">>, none>>,
          <<"GET", <<"/">> \o Str_httpoint_assets \o <<"/", "s", "t", "y", "l", "e", "s", ".", "c", "s", "s">>, none>>,
          <<"GET", <<"/", ".", ".", "/", "w", "w", "w", "-", "o", "l", "d", "/", "x">>, none>> }

\* the chunks of the bodies of the uploads; the other requests have no body
ConcurrentChunks ==
    { UploadBody, <<"Z">> }

\* Switch with chunks and totalSize kept at module level, one array and one
\* counter for all calls of collectBody
Switch_sharedChunks ==
    /\ ~crashed
    /\ other' = [pc |-> pc, req |-> req, stream |-> stream, emitted |-> emitted,
                 chunks |-> chunks, totalSize |-> totalSize, collect |-> collect,
                 context |-> context, result |-> result, parts |-> parts,
                 statusCode |-> statusCode, caught |-> caught, res |-> res,
                 pipe |-> pipe, ops |-> ops, stages |-> stages]
    /\ pc' = other.pc
    /\ req' = other.req
    /\ stream' = other.stream
    /\ emitted' = other.emitted
    /\ collect' = other.collect
    /\ context' = other.context
    /\ result' = other.result
    /\ parts' = other.parts
    /\ statusCode' = other.statusCode
    /\ caught' = other.caught
    /\ res' = other.res
    /\ pipe' = other.pipe
    /\ ops' = other.ops
    /\ stages' = other.stages
    /\ UNCHANGED <<debug, files, log, crashed, mp, ls, fmt, scan, chunks, totalSize>>

\* The running pipeline is suspended at an await and the other one resumes:
\* the locals of executePipeline and collectBody and the objects of the
\* request go with their request; config, the disk and the console stay.
Switch ==
    /\ ~crashed
    /\ other' = [pc |-> pc, req |-> req, stream |-> stream, emitted |-> emitted,
                 chunks |-> chunks, totalSize |-> totalSize, collect |-> collect,
                 context |-> context, result |-> result, parts |-> parts,
                 statusCode |-> statusCode, caught |-> caught, res |-> res,
                 pipe |-> pipe, ops |-> ops, stages |-> stages]
    /\ pc' = other.pc
    /\ req' = other.req
    /\ stream' = other.stream
    /\ emitted' = other.emitted
    /\ chunks' = other.chunks
    /\ totalSize' = other.totalSize
    /\ collect' = other.collect
    /\ context' = other.context
    /\ result' = other.result
    /\ parts' = other.parts
    /\ statusCode' = other.statusCode
    /\ caught' = other.caught
    /\ res' = other.res
    /\ pipe' = other.pipe
    /\ ops' = other.ops
    /\ stages' = other.stages
    /\ UNCHANGED <<debug, files, log, crashed, mp, ls, fmt, scan>>

NextConcurrent ==
    \/ \E r \in ConcurrentRequests : Request(r[1], r[2], r[3])
    \/ CreateContext
    \/ Security
    \/ BodyCollectorStart
    \/ \E c \in ConcurrentChunks : req.method = "POST" /\ OnData(c)
    \/ OnEnd
    \/ OnError
    \/ BodyCollectorSettle
    \/ Route
    \/ Respond
    \/ AssetHandler
    \/ FileHandler
    \/ ReadStreamOpen
    \/ DirectoryListingHandler
    \/ UploadBegin
    \/ UploadWrite
    \/ UploadEnd
    \/ Logger
    \/ Catch
    \/ Switch

SpecConcurrent ==
    Init /\ [][NextConcurrent]_vars

\* ------------------------------------------------------------------------
\* The request as a plain EventEmitter, as the tests of the body collector
\* build it (tests/middleware/body-collector.test.ts createMockRequest): it
\* keeps no stream state, so emit() reaches the listeners of collectBody
\* after an 'end' and after an 'error' as well
\* ------------------------------------------------------------------------

\* the requests: an upload, an upload to a missing path with a content type
\* that is not multipart, a listing, a file, an asset and a path that climbs
\* out of the root
EmitterRequests ==
    LET multipart == [present |-> TRUE,
                      value |-> Str_multipart \o <<";", " ">> \o Str_boundaryEq \o <<"B">>]
        none == [present |-> FALSE, value |-> <<>>]
    IN  { <<"POST", <<"/">>, multipart>>,
          <<"POST", <<"/", "m", "i", "s", "s", "i", "n", "g", ".", "t", "x", "t">>, none>>,
          <<"GET", <<"/", "s", "u", "b">>, none>>,
          <<"GET", <<"/", "a", ".", "t", "x", "t">>, none>>,
          <<"GET", <<"/">> \o Str_httpoint_assets \o <<"/", "s", "t", "y", "l", "e", "s", ".", "c", "s", "s">>, none>>,
          <<"GET", <<"/", ".", ".", "/", ".", ".", "/", "e", "t", "c", "/", "p", "a", "s", "s", "w", "d">>, none>> }

\* the chunks: a multipart body, half of MAX_BODY_SIZE, half of it and one
\* byte, all of it, all of it and one byte, and one byte
EmitterChunks ==
    { UploadBody, <<HALF>>, <<HALF, "Z">>, <<FILL>>, <<FILL, "Z">>, <<"Z">> }

\* nothing in an EventEmitter ends it: after 'end' or 'error' the next
\* emit() is delivered like the ones before
EmitAgain ==
    /\ stream \in {"ended", "errored"}
    /\ ~crashed
    /\ stream' = "flowing"
    /\ UNCHANGED <<debug, pc, req, emitted, chunks, totalSize, collect, context, result,
                   parts, statusCode, caught, res, pipe, files, ops, stages, log, crashed>>
    /\ UNCHANGED <<mp, ls, other, fmt, scan>>

NextEmitter ==
    \/ \E r \in EmitterRequests : Request(r[1], r[2], r[3])
    \/ CreateContext
    \/ Security
    \/ BodyCollectorStart
    \/ \E c \in EmitterChunks : OnData(c)
    \/ OnEnd
    \/ OnError
    \/ EmitAgain
    \/ BodyCollectorSettle
    \/ Route
    \/ Respond
    \/ AssetHandler
    \/ FileHandler
    \/ ReadStreamOpen
    \/ DirectoryListingHandler
    \/ UploadBegin
    \/ UploadWrite
    \/ UploadEnd
    \/ Logger
    \/ Catch

SpecEmitter ==
    Init /\ [][NextEmitter]_vars

\* ------------------------------------------------------------------------
\* The multipart codec on its own: tests/helpers.ts createMultipartData
\* encodes a list of fields, utils/multipart.ts parseMultipart decodes it
\* ------------------------------------------------------------------------

Str_CDname ==
    <<"C", "o", "n", "t", "e", "n", "t", "-", "D", "i", "s", "p", "o", "s", "i", "t", "i", "o",
      "n", ":", " ", "f", "o", "r", "m", "-", "d", "a", "t", "a", ";", " ", "n", "a", "m", "e",
      "=", "\"">>

Str_CDfilename ==
    <<"\"", ";", " ", "f", "i", "l", "e", "n", "a", "m", "e", "=", "\"">>

Str_CTOctet ==
    <<"C", "o", "n", "t", "e", "n", "t", "-", "T", "y", "p", "e", ":", " ", "a", "p", "p", "l",
      "i", "c", "a", "t", "i", "o", "n", "/", "o", "c", "t", "e", "t", "-", "s", "t", "r", "e",
      "a", "m">>

Field(name, filename, data) ==
    [name |-> name, filename |-> filename, data |-> data]

\* the chunks createMultipartData pushes for one field; an empty filename is
\* falsy and takes the branch of a plain form field
encodeField(boundary, field) ==
    DashDash \o boundary \o CRLF
    \o (IF Len(field.filename) > 0
        THEN Str_CDname \o field.name \o Str_CDfilename \o field.filename \o Quote \o CRLF
             \o Str_CTOctet \o CRLFCRLF
        ELSE Str_CDname \o field.name \o Quote \o CRLFCRLF)
    \o field.data \o CRLF

\* createMultipartData(fields), for the boundary given
createMultipartData(boundary, fields) ==
    BufferConcat([i \in 1..Len(fields) |-> encodeField(boundary, fields[i])])
    \o DashDash \o boundary \o DashDash \o CRLF

\* bound: the number of parts of an encoded body
MaxParts ==
    2

Boundaries ==
    { <<"B">>, <<"-", "B">> }

Str_file ==
    <<"f", "i", "l", "e">>

FieldNames ==
    { Str_file }

\* filename of a field; the empty one stands for a field without filename
FileNames ==
    { <<"x", ".", "t", "x", "t">>, <<"y">>, <<>> }

\* part data: empty, text, CRLF sequences, dashes, a run of binary bytes, and
\* text that contains the delimiter of boundary B
FieldData ==
    { <<>>, Str_hi, CRLFCRLF, DashDash, <<FILL>>, <<"a", "-", "-", "B", "b">> }

FieldSet ==
    {Field(n, f, d) : n \in FieldNames, f \in FileNames, d \in FieldData}

FieldLists ==
    UNION {[1..n -> FieldSet] : n \in 0..MaxParts}

\* bodies that no encoder produced, decoded with the boundaries of the
\* encoder and with the empty boundary: empty, plain text, dashes only, a part
\* delimited by "-B", a part without closing delimiter, a body of
\* delimiters only, a part without blank line, a part with a malformed
\* Content-Disposition, a part without any header, a well-formed body, a
\* well-formed body after an end marker and after another well-formed body,
\* a closed part followed by a part without closing delimiter, and parts
\* whose header has the filename before the name or no name at all
RawBodies ==
    LET open == <<"-", "-", "B", CR, LF>> \o Str_ContentDisposition
                  \o <<":", " ", "f", "o", "r", "m", "-", "d", "a", "t", "a", ";", " ">>
        filenameAttr == Str_filenameEq \o <<"x", ".", "t", "x", "t">> \o Quote
        nameAttr == Str_nameEq \o Str_file \o Quote
    IN
    { <<>>,
      Str_hi,
      DashDash,
      SubarrayFrom(PartHead, 1) \o Str_hi \o <<"-", "B">>,
      PartHead \o Str_hi,
      <<"-", "-", "B", CR, LF, "-", "-", "B", "-", "-", CR, LF>>,
      <<"-", "-", "B", CR, LF>> \o Str_ContentDisposition \o <<CR, LF>> \o PartTail,
      <<"-", "-", "B", CR, LF>> \o Str_ContentDisposition
          \o <<":", " ", "m", "a", "l", "f", "o", "r", "m", "e", "d">> \o CRLFCRLF \o PartTail,
      <<"-", "-", "B">> \o CRLFCRLF \o PartTail,
      <<FILL>>,
      UploadBody,
      <<"-", "-", "B", "-", "-", CR, LF>> \o UploadBody,
      UploadBody \o UploadBody,
      PartHead \o Str_hi \o CRLF \o PartHead \o Str_hi,
      open \o filenameAttr \o <<";", " ">> \o nameAttr \o CRLFCRLF \o PartTail,
      open \o filenameAttr \o CRLFCRLF \o PartTail }

InitMultipart ==
    /\ debug = FALSE
    /\ PipelineInit
    /\ ls = NoListing
    /\ fmt = NoFormat
    /\ scan = NoScan
    /\ mp \in {[stage |-> "input", boundary |-> b, fields |-> fs,
                body |-> <<>>, decoded |-> <<>>] : b \in Boundaries, fs \in FieldLists}
              \cup {[stage |-> "raw", boundary |-> b, fields |-> <<>>,
                     body |-> raw, decoded |-> <<>>] :
                        b \in Boundaries \cup {<<>>}, raw \in RawBodies}

Encode ==
    /\ mp.stage = "input"
    /\ mp' = [mp EXCEPT !.stage = "encoded",
                        !.body = createMultipartData(mp.boundary, mp.fields)]
    /\ UNCHANGED <<pipelineVars, ls, other, fmt, scan>>

\* parseMultipart applied to an encoded body ("decoded") or to a body given
\* as it is ("parsed")
Decode ==
    /\ mp.stage \in {"encoded", "raw"}
    /\ mp' = [mp EXCEPT !.stage = IF mp.stage = "raw" THEN "parsed" ELSE "decoded",
                        !.decoded = parseMultipart(mp.body, mp.boundary)]
    /\ UNCHANGED <<pipelineVars, ls, other, fmt, scan>>

NextMultipart ==
    \/ Encode
    \/ Decode

SpecMultipart ==
    InitMultipart /\ [][NextMultipart]_vars

\* ------------------------------------------------------------------------
\* The directory listing on its own: views/directory-listing.ts
\* generateDirectoryListing over a directory with several subdirectories and
\* files, for every order in which the directory read may return the names
\* ------------------------------------------------------------------------

\* the disk with a directory docs under root that holds the subdirectories b
\* and d and the files a, c and e
ListingFiles ==
    LET docs == Root \o <<"/", "d", "o", "c", "s">> IN
    InitialFiles
    @@ ( docs :> Dir
         @@ (docs \o <<"/", "b">>) :> Dir
         @@ (docs \o <<"/", "d">>) :> Dir
         @@ (docs \o <<"/", "a">>) :> File(<<"A">>)
         @@ (docs \o <<"/", "c">>) :> File(<<>>)
         @@ (docs \o <<"/", "e">>) :> File(<<FILL>>) )

\* the request paths of the listings: the root, written "/", "//" and "/./",
\* docs, and docs with a trailing slash
ListingPaths ==
    { Slash, <<"/", "/">>, <<"/", ".", "/">>,
      <<"/", "d", "o", "c", "s">>, <<"/", "d", "o", "c", "s", "/">> }

InitListing ==
    /\ debug = FALSE
    /\ PipelineInit
    /\ mp = NoMultipart
    /\ fmt = NoFormat
    /\ scan = NoScan
    /\ ls \in {[stage |-> "input", requestPath |-> rp, names |-> q, page |-> <<>>] :
                  rp \in ListingPaths,
                  q \in UNION {Orderings(Children(ListingFiles, resolvePath(p, Root))) :
                                  p \in ListingPaths}}
    /\ ls.names \in Orderings(Children(ListingFiles, resolvePath(ls.requestPath, Root)))

\* generateDirectoryListing(dirPath, requestPath) where readdirSync returns
\* ls.names
GenerateListing ==
    /\ ls.stage = "input"
    /\ ls' = [ls EXCEPT !.stage = "rendered",
                        !.page = generateDirectoryListing(ListingFiles,
                                     resolvePath(ls.requestPath, Root),
                                     ls.requestPath, ls.names).page]
    /\ UNCHANGED <<pipelineVars, mp, other, fmt, scan>>

SpecListing ==
    InitListing /\ [][GenerateListing]_vars

\* ------------------------------------------------------------------------
\* formatFileSize on its own
\* ------------------------------------------------------------------------

\* the digits the sizes are written with
SizeDigits ==
    {0, 1, 7, 256, 512, 1023}

\* the sizes: the whole numbers below 2^53 (eight times 1024^5) whose digits
\* in base 1024 are digits of SizeDigits
Sizes ==
    {<<0>>}
    \cup UNION {{d \in [1..n -> SizeDigits] : d[n] # 0 /\ (n = 6 => d[n] < 8)} : n \in 1..6}

InitFormat ==
    /\ debug = FALSE
    /\ PipelineInit
    /\ mp = NoMultipart
    /\ ls = NoListing
    /\ scan = NoScan
    /\ fmt \in {[stage |-> "input", bytes |-> b, text |-> NoSize] : b \in Sizes}

\* formatFileSize(bytes)
Format ==
    /\ fmt.stage = "input"
    /\ fmt' = [fmt EXCEPT !.stage = "formatted", !.text = formatFileSize(fmt.bytes)]
    /\ UNCHANGED <<pipelineVars, mp, ls, other, scan>>

SpecFormat ==
    InitFormat /\ [][Format]_vars

\* ------------------------------------------------------------------------
\* The loop of parseMultipart turn by turn
\* ------------------------------------------------------------------------

\* the bodies scanned: the encoded field lists and the bodies no encoder
\* produced
InitScan ==
    /\ debug = FALSE
    /\ PipelineInit
    /\ mp = NoMultipart
    /\ ls = NoListing
    /\ fmt = NoFormat
    /\ scan \in {[NoScan EXCEPT !.stage = "start", !.boundary = b,
                                !.body = createMultipartData(b, fs)] :
                     b \in Boundaries, fs \in FieldLists}
                \cup {[NoScan EXCEPT !.stage = "start", !.boundary = b, !.body = raw] :
                        b \in Boundaries \cup {<<>>}, raw \in RawBodies}

\* lines 20-24: let end = body.indexOf(boundaryBuffer, start)
ScanBegin ==
    /\ scan.stage = "start"
    /\ scan' = [scan EXCEPT !.stage = "loop",
                            !.end = IndexOf(scan.body, DashDash \o scan.boundary, 0)]
    /\ UNCHANGED <<pipelineVars, mp, ls, other, fmt>>

\* lines 26-65: one turn of the loop; the count of the turns stops at the
\* length of the body
ScanTurn ==
    /\ scan.stage = "loop"
    /\ scan.end # -1
    /\ scan.turns <= Len(scan.body)
    /\ LET turn == loopTurn(scan.body, DashDash \o scan.boundary,
                            DashDash \o scan.boundary \o DashDash, scan.end, scan.parts)
       IN  scan' = [scan EXCEPT !.stage = IF turn.again THEN "loop" ELSE "returned",
                                !.end = turn.end,
                                !.parts = turn.parts,
                                !.turns = @ + 1]
    /\ UNCHANGED <<pipelineVars, mp, ls, other, fmt>>

\* line 26 with end === -1, and line 66
ScanReturn ==
    /\ scan.stage = "loop"
    /\ scan.end = -1
    /\ scan' = [scan EXCEPT !.stage = "returned"]
    /\ UNCHANGED <<pipelineVars, mp, ls, other, fmt>>

NextScan ==
    \/ ScanBegin
    \/ ScanTurn
    \/ ScanReturn

SpecScan ==
    InitScan /\ [][NextScan]_vars

\* ------------------------------------------------------------------------
\* Uploads of several parts of which one cannot be written
\* ------------------------------------------------------------------------

Str_yo ==
    <<"y", "o">>

Str_ok ==
    <<"o", "k">>

\* The bodies of the uploads, encoded as tests/helpers.ts does.  The file
\* names are a.txt (a file under the root), y.txt and z.txt (new), sub (a
\* directory under the root) and gone (a dangling link in sub): in an upload
\* to the root the part named sub cannot be written, in an upload to sub the
\* part named gone cannot.  The part that fails is the first, the second or
\* the third, or none.
UploadBodies ==
    LET a == Field(Str_file, <<"a", ".", "t", "x", "t">>, Str_hi)
        y == Field(Str_file, <<"y", ".", "t", "x", "t">>, Str_yo)
        z == Field(Str_file, <<"z", ".", "t", "x", "t">>, Str_ok)
        d == Field(Str_file, <<"s", "u", "b">>, Str_yo)
        g == Field(Str_file, <<"g", "o", "n", "e">>, Str_ok)
    IN  { createMultipartData(<<"B">>, <<d, a>>),
          createMultipartData(<<"B">>, <<a, d, z>>),
          createMultipartData(<<"B">>, <<a, y, d>>),
          createMultipartData(<<"B">>, <<y, g, a>>),
          createMultipartData(<<"B">>, <<a, y>>) }

\* uploads to the root and to sub, and requests for the other handlers
UploadRequests ==
    LET multipart == [present |-> TRUE,
                      value |-> Str_multipart \o <<";", " ">> \o Str_boundaryEq \o <<"B">>]
        none == [present |-> FALSE, value |-> <<>>]
    IN  { <<"POST", <<"/">>, multipart>>,
          <<"POST", <<"/", "s", "u", "b">>, multipart>>,
          <<"GET", <<"/", "s", "u", "b">>, none>>,
          <<"GET", <<"/", "a", ".", "t", "x", "t">>, none>>,
          <<"GET", <<"/", "m", "i", "s", "s", "i", "n", "g", ".", "t", "x", "t">>, none>>,
          <<"GET", <<"/">> \o Str_httpoint_assets \o <<"/", "s", "t", "y", "l", "e", "s", ".", "c", "s", "s">>, none>> }

NextUpload ==
    \/ \E r \in UploadRequests : Request(r[1], r[2], r[3])
    \/ CreateContext
    \/ Security
    \/ BodyCollectorStart
    \/ \E c \in UploadBodies : req.method = "POST" /\ OnData(c)
    \/ OnEnd
    \/ OnError
    \/ BodyCollectorSettle
    \/ Route
    \/ Respond
    \/ AssetHandler
    \/ FileHandler
    \/ ReadStreamOpen
    \/ DirectoryListingHandler
    \/ UploadBegin
    \/ UploadWrite
    \/ UploadEnd
    \/ Logger
    \/ Catch

SpecUpload ==
    Init /\ [][NextUpload]_vars

\* ------------------------------------------------------------------------
\* Properties
\* ------------------------------------------------------------------------

Ran(stage) ==
    \E i \in 1..Len(stages) : stages[i] = Started(stage)

Succeeded(stage) ==
    \E i \in 1..Len(stages) : stages[i] = Completed(stage)

StageFailed(stage) ==
    \E i \in 1..Len(stages) : stages[i] = Failed(stage)

\* the request has been received and its URL path can be percent-decoded
Decodable ==
    /\ pc # "idle"
    /\ Len(req.url) > 0
    /\ ~decodeThrows(urlPathname(req.url))

\* the percent-decoded URL path of the request
DecodedPath ==
    decodeURIComponent(urlPathname(req.url))

HasDotDotSegment(path) ==
    \E i \in 1..Len(Split(path, Slash)) : Split(path, Slash)[i] = DotDot

\* key is the directory `root` itself or lies in the tree below it
Beneath(key, root) ==
    key = root \/ StartsWith(key, root \o Slash)

\* the files of the disk that the request created or changed
ChangedFiles ==
    {k \in DOMAIN files : k \notin DOMAIN InitialFiles \/ files[k] # InitialFiles[k]}

\* C1: a request whose percent-decoded URL path contains a ".." segment is
\* answered 403 and causes no filesystem call at all (no stat, read, readdir
\* or write), also when the joined path stays under root.
C1_DotDotSegmentIsForbidden ==
    (Decodable /\ HasDotDotSegment(DecodedPath))
        => /\ ops = <<>>
           /\ pc = "done" => (res.statusCode = 403 /\ res.text = "Forbidden")

\* C2: a request whose root-joined, normalized path is neither root nor a
\* descendant of root is answered 403, and neither the router nor a handler
\* runs for it; a sibling directory that has root's path as a string prefix
\* is outside root.
C2_OutsideRootIsForbidden ==
    (Decodable /\ ~Beneath(FsKey(pathJoin(Root, DecodedPath)), Root))
        => /\ ~Ran("router")
           /\ ~Ran("handler")
           /\ pc = "done" => (res.statusCode = 403 /\ res.text = "Forbidden")

\* C3: every file the upload handler writes lies beneath root, whatever the
\* file name of the part is.  (Stated for uploads into a directory that is
\* itself beneath root.)
C3_UploadsStayBeneathRoot ==
    (Ran("handler") /\ result.handler = "directoryUploadHandler"
       /\ Beneath(FsKey(context.filePath), Root))
        => /\ \A k \in ChangedFiles : Beneath(k, Root)
           /\ \A i \in 1..Len(ops) :
                ops[i].op = "writeFile" => Beneath(FsKey(ops[i].path), Root)

C5_ErrorKindDecidesStatus ==
    (pc = "done" /\ caught # NoError)
        => /\ res.ended
           /\ res.statusCode = statusCode
           /\ res.contentType = "text/plain"
           /\ IF caught.class = "SecurityViolationError"
              THEN res.statusCode = 403 /\ res.text = "Forbidden"
              ELSE IF StageFailed("bodyCollector") /\ totalSize > MAX_BODY_SIZE
              THEN res.statusCode = 413 /\ res.text = "Request Entity Too Large"
              ELSE res.statusCode = 500 /\ res.text = "Internal Server Error"

\* a request stream error became a 500
C5_Witness ==
    /\ pc = "done"
    /\ caught = StreamError
    /\ res.statusCode = 500
    /\ emitted # <<>>

\* the stage that has to complete before `stage` may start
PreviousStages(stage) ==
    IF stage = "security" THEN {"context"}
    ELSE IF stage = "bodyCollector" THEN {"security"}
    ELSE IF stage = "router" THEN {"bodyCollector"}
    ELSE IF stage = "handler" THEN {"router"}
    ELSE IF stage = "logger" THEN {"router", "handler"}
    ELSE {}

C7_RouterTable ==
    Succeeded("router")
        => LET asset == StartsWith(context.requestPath, AssetPrefix)
               stat == StatOutcome(files, context.filePath)
           IN  /\ asset => /\ result = HandlerResult("assetHandler", 0, "")
                           /\ \A i \in 1..Len(ops) : ops[i].op # "stat"
               /\ ~asset /\ stat = "ENOENT" => result = HandlerResult("", 404, "Not Found")
               /\ ~asset /\ stat \notin {"ENOENT", "dir", "file"}
                    => (result.handler = "" /\ result.statusCode = 500)
               /\ ~asset /\ stat = "dir" /\ req.method = "POST"
                    => result = HandlerResult("directoryUploadHandler", 0, "")
               /\ ~asset /\ stat = "dir" /\ req.method # "POST"
                    => result = HandlerResult("directoryListingHandler", 0, "")
               /\ ~asset /\ stat = "file" => result = HandlerResult("fileHandler", 0, "")

\* a PUT on a directory was routed to the listing handler and a POST on the
\* asset prefix to the asset handler
C7_Witness ==
    /\ Succeeded("router")
    /\ \/ req.method = "PUT" /\ result.handler = "directoryListingHandler"
       \/ req.method = "POST" /\ result.handler = "assetHandler"

\* the Content-Type header is absent, does not start with
\* multipart/form-data, or has no boundary= parameter
BadUploadContentType(contentType) ==
    \/ ~contentType.present
    \/ ~StartsWith(contentType.value, Str_multipart)
    \/ ~Includes(contentType.value, Str_boundaryEq)

\* C8: a POST to a directory with an absent or non-multipart Content-Type, or
\* without boundary= parameter, is answered 400 and creates or changes no
\* file.
C8_BadUploadIs400 ==
    (result.handler = "directoryUploadHandler" /\ BadUploadContentType(req.contentType))
        => /\ files = InitialFiles
           /\ \A i \in 1..Len(ops) : ops[i].op # "writeFile"
           /\ pc \in {"logger", "done"} => (res.statusCode = 400 /\ res.ended)

C8_Witness ==
    /\ pc = "done"
    /\ result.handler = "directoryUploadHandler"
    /\ req.contentType.present
    /\ ~Includes(req.contentType.value, Str_boundaryEq)
    /\ StartsWith(req.contentType.value, Str_multipart)
    /\ Len(context.body.data) > 0
    /\ res.statusCode = 400

\* C9: after a POST to "/" of a well-formed multipart body with the one part
\* {name: file, filename: x.txt, data: hi}, the response is 200 "Files
\* uploaded successfully" and the file x.txt under root contains exactly hi.
C9_UploadScenario ==
    ( /\ pc = "done"
      /\ req.method = "POST"
      /\ req.url = Slash
      /\ result.handler = "directoryUploadHandler"
      /\ ~BadUploadContentType(req.contentType)
      /\ context.body.data = UploadBody )
        => /\ res.statusCode = 200
           /\ res.text = "Files uploaded successfully"
           /\ UploadedFile \in DOMAIN files
           /\ files[UploadedFile] = File(Str_hi)

\* a valid (boundary, parts) pair: every part has a name and a file name, and
\* the delimiter "--boundary" occurs in no part's data
ValidPair(boundary, fields) ==
    \A i \in 1..Len(fields) :
        /\ Len(fields[i].name) > 0
        /\ Len(fields[i].filename) > 0
        /\ ~Includes(fields[i].data, DashDash \o boundary)

\* C10: decoding the encoded body of a valid (boundary, parts) pair gives as
\* many parts in the same order, each with the original name and file name,
\* and with the original data followed by exactly the CRLF the encoder puts
\* before the next delimiter; bytes and CRLF sequences in the data are kept.
C10_RoundTrip ==
    (mp.stage = "decoded" /\ ValidPair(mp.boundary, mp.fields))
        => /\ Len(mp.decoded) = Len(mp.fields)
           /\ \A i \in 1..Len(mp.fields) :
                /\ mp.decoded[i].name = mp.fields[i].name
                /\ mp.decoded[i].filename = mp.fields[i].filename
                /\ mp.decoded[i].data = mp.fields[i].data \o CRLF

\* two parts, one with CRLF CRLF as data and one with binary data, decoded
C10_Witness ==
    /\ mp.stage = "decoded"
    /\ ValidPair(mp.boundary, mp.fields)
    /\ Len(mp.fields) = 2
    /\ mp.fields[1].data = CRLFCRLF
    /\ mp.fields[2].data = <<FILL>>
    /\ Len(mp.decoded) = 2

\* the parts parseMultipart may return: records of name, filename and data
IsPartList(list) ==
    \A i \in 1..Len(list) :
        /\ DOMAIN list[i] = {"name", "filename", "data"}
        /\ Len(list[i].name) > 0
        /\ Len(list[i].filename) > 0

\* C11: parseMultipart returns a list of parts for every body and every
\* boundary, and the empty list when "--boundary" does not occur in the body
\* (the empty body included).
C11_NoBoundaryNoParts ==
    mp.stage \in {"parsed", "decoded"}
        => /\ IsPartList(mp.decoded)
           /\ ~Includes(mp.body, DashDash \o mp.boundary) => mp.decoded = <<>>

\* a body that holds a whole part between "-B" delimiters was parsed to nothing
C11_Witness ==
    /\ mp.stage = "parsed"
    /\ mp.boundary = <<"B">>
    /\ mp.body = SubarrayFrom(PartHead, 1) \o Str_hi \o <<"-", "B">>
    /\ mp.decoded = <<>>

\* every field has a name and no field's data holds the delimiter
WellFormedFields(boundary, fields) ==
    \A i \in 1..Len(fields) :
        /\ Len(fields[i].name) > 0
        /\ ~Includes(fields[i].data, DashDash \o boundary)

HasFilename(field) ==
    Len(field.filename) > 0

\* what the decoder returns for an encoded field that has a filename
DecodedField(field) ==
    [name |-> field.name, filename |-> field.filename, data |-> field.data \o CRLF]

\* C12: when a part of the encoded body has no filename in its
\* Content-Disposition, the decoder returns exactly the other parts, in their
\* order, each with its name, filename and data (the data with the CRLF the
\* encoder appends, as for every part); the part without filename is absent.
C12_PartWithoutFilenameDropped ==
    ( /\ mp.stage = "decoded"
      /\ WellFormedFields(mp.boundary, mp.fields)
      /\ \E i \in 1..Len(mp.fields) : ~HasFilename(mp.fields[i]) )
        => LET kept == SelectSeq(mp.fields, HasFilename)
           IN  mp.decoded = [i \in 1..Len(kept) |-> DecodedField(kept[i])]

\* a text field without filename before a file: only the file was returned
C12_Witness ==
    /\ mp.stage = "decoded"
    /\ Len(mp.fields) = 2
    /\ ~HasFilename(mp.fields[1])
    /\ mp.fields[1].data = Str_hi
    /\ HasFilename(mp.fields[2])
    /\ mp.decoded = <<DecodedField(mp.fields[2])>>

\* the upload handler has passed its checks and decoded the body
Uploading ==
    /\ result.handler = "directoryUploadHandler"
    /\ Ran("handler")
    /\ pc # "directoryUploadHandler"
    /\ uploadRejection(req.contentType, context.body) = ""

\* the parts the decoder returned for the request
DecodedParts ==
    parseMultipart(context.body.data, matchBoundary(req.contentType.value).group)

\* the writeFile calls of the request, in the order they were made
WriteCalls ==
    SelectSeq(ops, LAMBDA o : o.op = "writeFile")

\* the disk after the first n parts were written one after the other
RECURSIVE WrittenInOrder(_, _, _, _)
WrittenInOrder(disk, dir, list, n) ==
    IF n = 0 THEN disk
    ELSE WriteFile(WrittenInOrder(disk, dir, list, n - 1),
                   uploadPath(dir, list[n]), list[n].data)

\* C13: the upload handler writes the decoded parts one at a time in decoder
\* order: the k-th writeFile call is for the k-th part and is made when the
\* disk holds exactly the writes of the parts before it.  So after a
\* successful upload a file name that two parts carry holds the data of the
\* later part, and a file that existed before is replaced.
C13_WritesInDecoderOrder ==
    Uploading
        => LET all == DecodedParts
               completed == Len(all) - Len(parts)
           IN  /\ completed >= 0
               /\ parts = SubSeq(all, completed + 1, Len(all))
               /\ Len(WriteCalls) \in {completed, completed + 1}
               /\ Len(WriteCalls) = completed + 1 => StageFailed("handler")
               /\ \A k \in 1..Len(WriteCalls) :
                    WriteCalls[k].path = uploadPath(context.filePath, all[k])
               /\ files = WrittenInOrder(InitialFiles, context.filePath, all, completed)
               /\ Succeeded("handler")
                    => /\ completed = Len(all)
                       /\ \A k \in 1..Len(all) :
                            (\A j \in (k + 1)..Len(all) : all[j].filename # all[k].filename)
                                => files[FsKey(uploadPath(context.filePath, all[k]))]
                                       = File(all[k].data)

\* two parts named a.txt were uploaded to the root, where a.txt existed: the
\* file holds the data of the second part
C13_Witness ==
    /\ pc = "done"
    /\ Uploading
    /\ Succeeded("handler")
    /\ req.url = Slash
    /\ Len(DecodedParts) = 2
    /\ DecodedParts[1].filename = DecodedParts[2].filename
    /\ DecodedParts[1].data # DecodedParts[2].data
    /\ Len(WriteCalls) = 2
    /\ files[FsKey(uploadPath(context.filePath, DecodedParts[2]))] = File(DecodedParts[2].data)
    /\ InitialFiles[FsKey(uploadPath(context.filePath, DecodedParts[2]))]
           # File(DecodedParts[2].data)

\* the number of elements of the first n chunks together
RECURSIVE LengthOfFirst(_, _)
LengthOfFirst(list, n) ==
    IF n = 0 THEN 0 ELSE LengthOfFirst(list, n - 1) + Len(list[n])

\* the number of bytes of the first n chunks together
RECURSIVE BytesOfFirst(_, _)
BytesOfFirst(list, n) ==
    IF n = 0 THEN 0 ELSE BytesOfFirst(list, n - 1) + ByteLength(list[n])

\* buffer holds the chunks of list one after the other and nothing else
IsConcatenationOf(buffer, list) ==
    /\ Len(buffer) = LengthOfFirst(list, Len(list))
    /\ \A n \in 1..Len(list) :
         Subarray(buffer, LengthOfFirst(list, n - 1), LengthOfFirst(list, n)) = list[n]

BodyTooLarge ==
    GenericError("Request body too large")

C16_MissingAssetIsError ==
    (result.handler = "assetHandler" /\ pipe.state = "error")
        => /\ res.ended
           /\ res.statusCode \in {404, 500}
           /\ ~crashed
           /\ \A i \in 1..Len(log) : log[i].status # 200

\* the internal asset directory
AssetDir ==
    pathJoinAll(<<Dirname, DotDot, Str_httpoint_assets>>)

\* C17: for every request path under the asset prefix, the file the asset
\* handler opens lies inside the internal asset directory, whatever follows
\* the prefix (".." segments included) and whatever root is.
C17_AssetsStayInAssetDir ==
    result.handler = "assetHandler"
        => \A i \in 1..Len(ops) :
             ops[i].op \in {"createReadStream", "read"}
                 => ( /\ Beneath(FsKey(ops[i].path), AssetDir)
                      /\ FsKey(ops[i].path) # AssetDir )

ErrorStatuses ==
    {400, 403, 404, 413, 500}

\* C18: every error response is written by the orchestrator alone: a step
\* that writes a response with status 400, 403, 404, 413 or 500 is a step of
\* executePipeline itself (its direct response for a router result, or its
\* catch block), never a step of a stage or of a handler.
C18_OnlyOrchestratorWritesErrors ==
    [][ (res' # res /\ res'.statusCode \in ErrorStatuses)
            => pc \in {"respond", "catch"} ]_vars

\* the request path names no entry of the disk below root: the entry is not
\* there, and no directory on the way to it is closed to the server (paths
\* with two dots in a row and the asset prefix are left aside)
NamesNothingUnderRoot ==
    LET key == FsKey(pathJoin(Root, DecodedPath)) IN
    /\ Beneath(key, Root)
    /\ ~Includes(DecodedPath, DotDot)
    /\ ~StartsWith(DecodedPath, AssetPrefix)
    /\ key \notin DOMAIN InitialFiles
    /\ \A a \in Ancestors(key) : a \in DOMAIN InitialFiles => InitialFiles[a].kind # "locked"

\* C19: a GET for a path under root that does not exist is answered 404 with
\* Content-Type text/plain and the body "Not Found", and no handler runs.
\* (Stated for requests whose body was collected without failure.)
C19_MissingPathIs404 ==
    (Decodable /\ req.method = "GET" /\ NamesNothingUnderRoot)
        => /\ ~Ran("handler")
           /\ (pc = "done" /\ Ran("router"))
                => /\ res.statusCode = 404
                   /\ res.contentType = "text/plain"
                   /\ res.ended
                   /\ res.text = "Not Found"

\* the name of the directory entry an item of the page stands for
NameOfItem(item) ==
    IF item.kind = "dir" THEN SubSeq(item.label, 1, Len(item.label) - 1) ELSE item.label

\* the place of a name in the answer of the directory read
PlaceOf(names, name) ==
    CHOOSE k \in 1..Len(names) : names[k] = name

\* C20: the listing has the parent link first (none for the request path
\* "/"), then every subdirectory, then every regular file: no file precedes
\* a directory, every name the directory read returned appears once, and
\* inside each group the entries stand in the order of the directory read.
C20_ListingOrder ==
    ls.stage = "rendered"
        => LET page == ls.page
               first == IF ls.requestPath = Slash THEN 1 ELSE 2
           IN  /\ ls.requestPath # Slash => (Len(page) >= 1 /\ page[1].kind = "parent")
               /\ \A i \in first..Len(page) : page[i].kind \in {"dir", "file"}
               /\ Len(page) = Len(ls.names) + first - 1
               /\ {NameOfItem(page[i]) : i \in first..Len(page)}
                      = {ls.names[k] : k \in 1..Len(ls.names)}
               /\ \A i \in first..Len(page) :
                    (page[i].kind = "dir")
                        <=> (ListingFiles[FsKey(pathJoin(resolvePath(ls.requestPath, Root),
                                                         NameOfItem(page[i])))].kind
                                \in {"dir", "locked"})
               /\ \A i, j \in first..Len(page) :
                    i < j => /\ ~(page[i].kind = "file" /\ page[j].kind = "dir")
                             /\ page[i].kind = page[j].kind
                                  => PlaceOf(ls.names, NameOfItem(page[i]))
                                         < PlaceOf(ls.names, NameOfItem(page[j]))

\* the directory read returned a file first and a directory last, and the
\* page of docs shows the parent link, both directories, then the three files
C20_Witness ==
    /\ ls.stage = "rendered"
    /\ ls.requestPath # Slash
    /\ Len(ls.names) = 5
    /\ ls.names[1] = <<"e">>
    /\ ls.names[5] = <<"b">>
    /\ Len(ls.page) = 6
    /\ ls.page[1].kind = "parent"
    /\ ls.page[3].label = <<"b", "/">>
    /\ ls.page[4].label = <<"e">>

\* the request path of the listing is one the pipeline hands to the listing:
\* createRequestContext accepts it, security passes, and fs.stat of the file
\* path answers a directory
ListedByPipeline ==
    LET made == createRequestContext(ls.requestPath, Root)
    IN  /\ made.ok
        /\ security(made.value.requestPath, made.value.filePath, Root).ok
        /\ StatOutcome(ListingFiles, made.value.filePath) = "dir"

\* C21: the page has a parent-directory link exactly when the listed
\* directory is not the served root: no page of the root has one, whichever
\* way the request path writes the root ("/", "//", "/./"), and every page of
\* another directory has one.
C21_ParentLinkExactlyBelowRoot ==
    (ls.stage = "rendered" /\ ListedByPipeline)
        => LET listed == FsKey(resolvePath(ls.requestPath, Root))
               hasParent == \E i \in 1..Len(ls.page) : ls.page[i].kind = "parent"
           IN  hasParent <=> (listed # Root)

\* the request-local state of the running request, as a record like `other`
Running ==
    [pc |-> pc, req |-> req, stream |-> stream, emitted |-> emitted,
     chunks |-> chunks, totalSize |-> totalSize, collect |-> collect,
     context |-> context, result |-> result, parts |-> parts,
     statusCode |-> statusCode, caught |-> caught, res |-> res,
     pipe |-> pipe, ops |-> ops, stages |-> stages]

\* how collectBody settles for a stream that emitted the chunks `em` and then
\* ended ("ended") or failed ("errored")
CollectOutcome(em, end) ==
    IF \E n \in 1..Len(em) : BytesOfFirst(em, n) > MAX_BODY_SIZE THEN Thrown(BodyTooLarge)
    ELSE IF end = "errored" THEN Thrown(StreamError)
    ELSE Returned(BufferConcat(em))

\* how the writes of an upload end on the disk fs: "ok" or the errno of the
\* first write that fails
RECURSIVE UploadOutcome(_, _, _)
UploadOutcome(fs, filePath, list) ==
    IF list = <<>> THEN "ok"
    ELSE LET target == uploadPath(filePath, Head(list)) IN
         IF WriteOutcome(fs, target) = "ok"
         THEN UploadOutcome(WriteFile(fs, target, Head(list).data), filePath, Tail(list))
         ELSE WriteOutcome(fs, target)

\* status and body of a response: the text, the bytes of a file or the items
\* of a listing
Answer(status, text, data, page) ==
    [statusCode |-> status, text |-> text, data |-> data, page |-> page]

AnswerOfError(error) ==
    Answer(errorResponse(error).statusCode, errorResponse(error).text, <<>>, <<>>)

\* The answers a request can get, computed from the request alone (method,
\* url, content type, the chunks of its body and the way its stream ended)
\* and the disk fs.
AnswersOf(rq, em, end, fs) ==
    LET made == createRequestContext(rq.url, Root) IN
    IF ~made.ok THEN {AnswerOfError(made.error)}
    ELSE
    LET c == made.value
        checked == security(c.requestPath, c.filePath, Root)
    IN
    IF ~checked.ok THEN {AnswerOfError(checked.error)}
    ELSE
    LET body == CollectOutcome(em, end) IN
    IF ~body.ok THEN {AnswerOfError(body.error)}
    ELSE
    LET route == router(c.requestPath, rq.method, StatOutcome(fs, c.filePath))
        served == IF route.handler = "assetHandler" THEN publicFilePath(c.requestPath)
                  ELSE c.filePath
    IN
    IF route.handler = "" THEN {Answer(route.statusCode, route.message, <<>>, <<>>)}
    ELSE IF route.handler \in {"assetHandler", "fileHandler"}
    THEN IF StatOutcome(fs, served) = "file"
         THEN {Answer(200, "", fs[FsKey(served)].data, <<>>)}
         ELSE {}
    ELSE IF route.handler = "directoryListingHandler"
    THEN { LET listing == generateDirectoryListing(fs, c.filePath, c.requestPath, names)
           IN  IF listing.ok THEN Answer(200, "", <<>>, listing.page)
               ELSE AnswerOfError(listing.error) :
             names \in Orderings(Children(fs, c.filePath)) }
    ELSE LET collected == [set |-> TRUE, data |-> body.value] IN
         IF uploadRejection(rq.contentType, collected) # ""
         THEN {Answer(400, uploadRejection(rq.contentType, collected), <<>>, <<>>)}
         ELSE LET written == UploadOutcome(fs, c.filePath,
                                 parseMultipart(body.value,
                                                matchBoundary(rq.contentType.value).group))
              IN  IF written = "ok"
                  THEN {Answer(200, "Files uploaded successfully", <<>>, <<>>)}
                  ELSE {AnswerOfError(ErrnoException(written))}

\* C22: with two pipelines that change places at their awaits, the body of
\* each request is the concatenation of the chunks of its own stream, and
\* the status and body of each response are an answer computed from that
\* request's own method, url, content type and chunks and from the disk,
\* before or after the writes of an upload.
C22_RequestsDoNotMix ==
    \A r \in {Running, other} :
        /\ r.context.body.set => IsConcatenationOf(r.context.body.data, r.emitted)
        /\ r.res.ended
             => Answer(r.res.statusCode, r.res.text, r.res.data, r.res.page)
                    \in UNION {AnswersOf(r.req, r.emitted, r.stream, fs) :
                                  fs \in {InitialFiles, files}}

\* both pipelines wait for their bodies and each has collected a chunk the
\* other has not
C22_Witness ==
    /\ pc = "awaitBody"
    /\ other.pc = "awaitBody"
    /\ chunks = <<UploadBody>>
    /\ other.chunks = <<<<"Z">>, <<"Z">>>>
    /\ emitted = chunks
    /\ other.emitted = other.chunks

\* the literal texts the source passes to res.end for an error status
ErrorTexts(status) ==
    CASE status = 400 -> {"Invalid content type", "Invalid boundary or request body"}
      [] status = 403 -> {"Forbidden"}
      [] status = 404 -> {"Not Found"}
      [] status = 413 -> {"Request Entity Too Large"}
      [] status = 500 -> {"Internal Server Error"}

\* C23: a response that ended with status 400, 403, 404, 413 or 500 has as
\* its body one of the fixed texts of that status and nothing else (no file
\* bytes, no listing), whatever the error, its message, the paths and the
\* request body were, with debug on and with debug off.
C23_ErrorBodiesAreFixedTexts ==
    (res.ended /\ res.statusCode \in ErrorStatuses)
        => /\ res.text \in ErrorTexts(res.statusCode)
           /\ res.data = <<>>
           /\ res.page = <<>>

\* in debug mode a request with a collected body failed in its handler with
\* an error whose message is not the text of the response
C23_Witness ==
    /\ debug
    /\ res.ended
    /\ res.statusCode = 500
    /\ context.body.set
    /\ context.body.data # <<>>
    /\ caught # NoError
    /\ caught.message # res.text

\* logger was called for the request: as the last stage of the pipeline with
\* the context of the request, or by the catch block with a fallback context
LoggerCalled ==
    \/ Succeeded("logger")
    \/ /\ Succeeded("error")
       /\ caught.class # "SecurityViolationError"
       /\ createRequestContext(req.url, Root).ok

\* the body of the context logger was called with
LoggedBody ==
    IF Succeeded("logger") THEN context.body ELSE NoBody

\* the lines of the console that console.log wrote
ConsoleLog ==
    SelectSeq(log, LAMBDA line : line.kind # "pipeline-error")

\* C24: when logger has been called for a request, the console holds nothing
\* if the request path starts with /_httpoint_assets/ and debug is off;
\* otherwise it holds the line of method, request path and status, followed
\* by the line of the request body exactly when debug is on, the method is
\* POST and the context has a body, and nothing else.
C24_LoggerLines ==
    LoggerCalled
        => LET path == createRequestContext(req.url, Root).value.requestPath
               withBody == debug /\ req.method = "POST" /\ LoggedBody.set
           IN  IF StartsWith(path, AssetPrefix) /\ ~debug
               THEN ConsoleLog = <<>>
               ELSE /\ Len(ConsoleLog) = (IF withBody THEN 2 ELSE 1)
                    /\ ConsoleLog[1] = LogLine("request", req.method, path, statusCode, <<>>)
                    /\ withBody
                         => ConsoleLog[2] = LogLine("body", req.method, path, statusCode,
                                                    LoggedBody.data)

\* with debug off a POST with a body was logged with its request line alone
C24_Witness ==
    /\ ~debug
    /\ Succeeded("logger")
    /\ req.method = "POST"
    /\ context.body.set
    /\ context.body.data # <<>>
    /\ statusCode = 200
    /\ Len(log) = 1
    /\ log[1].kind = "request"

\* the digits of 1024^n
PowerOf1024(n) ==
    [i \in 1..(n + 1) |-> IF i = n + 1 THEN 1 ELSE 0]

\* C25: formatFileSize gives "1.0" with the unit KB, MB, GB, TB for 1024,
\* 1024^2, 1024^3 and 1024^4 bytes; every size below 1024 has the unit B;
\* the unit is always one of B, KB, MB, GB, TB, and a size of 1024^5 bytes or
\* more has the unit TB and a number of 1024 or more.
C25_UnitBoundaries ==
    fmt.stage = "formatted"
        => /\ \A n \in 1..4 :
                fmt.bytes = PowerOf1024(n)
                    => fmt.text = [whole |-> 1, tenth |-> 0, unit |-> Units[n + 1]]
           /\ Len(fmt.bytes) = 1 => fmt.text.unit = "B"
           /\ \E k \in 1..Len(Units) : fmt.text.unit = Units[k]
           /\ Len(fmt.bytes) >= 6 => (fmt.text.unit = "TB" /\ fmt.text.whole >= 1024)

\* 1024^4 bytes were formatted as 1.0 TB
C25_Witness ==
    /\ fmt.stage = "formatted"
    /\ fmt.bytes = <<0, 0, 0, 0, 1>>
    /\ fmt.text = [whole |-> 1, tenth |-> 0, unit |-> "TB"]

\* C26: the loop of parseMultipart ends for every body and boundary.  A turn
\* after which the loop goes on leaves it at a marker further on in the body
\* than the one it started from, so the offset grows with every turn and
\* stays below the length of the body; the loop is left only when there is
\* no marker at all, no marker after the one it stands on, or the next marker
\* is the end marker; and the number of turns taken stays below the length
\* of the body, so that the loop is never held by the limit of the count.
C26_ScanTerminates ==
    /\ [][(scan.stage = "loop" /\ scan'.turns = scan.turns + 1)
            => LET marker == DashDash \o scan.boundary
                   after == scan.end + Len(marker)
               IN  IF scan'.stage = "loop"
                   THEN /\ scan'.end > scan.end
                        /\ scan'.end < Len(scan.body)
                        /\ MatchAt(scan.body, marker, scan'.end)
                   ELSE \/ IndexOf(scan.body, marker, after) = -1
                        \/ IndexOf(scan.body, marker, after)
                             = IndexOf(scan.body, marker \o DashDash, after)]_vars
    /\ [][(scan.stage = "loop" /\ scan'.stage = "returned" /\ scan'.turns = scan.turns)
            => scan.end = -1]_vars
    /\ [](scan.stage = "loop" => (scan.end = -1 \/ scan.turns < Len(scan.body)))

\* a scan returned after three turns with two parts
C26_Witness ==
    /\ scan.stage = "returned"
    /\ scan.turns = 3
    /\ Len(scan.parts) = 2

\* parseMultipart has been applied to mp.body
Parsed ==
    mp.stage \in {"decoded", "parsed"}

\* the marker of mp.boundary
Marker ==
    DashDash \o mp.boundary

\* C27: nothing that stands after the first end marker of the body is
\* returned: the parts are those of the body cut off behind its first end
\* marker, also when the end marker is the first marker of the body.
C27_NothingAfterEndMarker ==
    LET first == IndexOf(mp.body, Marker \o DashDash, 0) IN
    (Parsed /\ first # -1)
        => mp.decoded
             = parseMultipart(Subarray(mp.body, 0, first + Len(Marker) + 2), mp.boundary)

\* the offsets of the markers in mp.body
MarkerOffsets ==
    {i \in 0..Len(mp.body) : MatchAt(mp.body, Marker, i)}

\* C28: every part returned is closed by a marker: its data stands in the
\* body between the blank line of its headers and a marker.  What follows
\* the last marker of the body is dropped and the parts before it are
\* returned as they are for the body cut off behind its last marker; a body
\* without marker has no parts.
C28_OnlyClosedParts ==
    Parsed
        => /\ \A k \in 1..Len(mp.decoded) :
                \E e \in MarkerOffsets :
                    LET from == e - Len(mp.decoded[k].data) IN
                    /\ from >= Len(CRLFCRLF)
                    /\ Subarray(mp.body, from, e) = mp.decoded[k].data
                    /\ Subarray(mp.body, from - Len(CRLFCRLF), from) = CRLFCRLF
           /\ MarkerOffsets = {} => mp.decoded = <<>>
           /\ MarkerOffsets # {}
                => mp.decoded
                     = parseMultipart(Subarray(mp.body, 0, MaxOf(MarkerOffsets) + Len(Marker)),
                                      mp.boundary)

\* a closed part followed by a part without marker after it gave the closed
\* part alone
C28_Witness ==
    /\ mp.stage = "parsed"
    /\ mp.boundary = <<"B">>
    /\ mp.body = PartHead \o Str_hi \o CRLF \o PartHead \o Str_hi
    /\ mp.decoded = <<[name |-> Str_file, filename |-> <<"x", ".", "t", "x", "t">>,
                       data |-> Str_hi \o CRLF]>>

\* C29: for every part returned, the body holds a name attribute with the
\* part's name and a filename attribute with the part's filename, whichever
\* of the two comes first; no part gets a name from a header without name
\* attribute.
C29_NameAndFilenameAttributes ==
    Parsed
        => \A k \in 1..Len(mp.decoded) :
              /\ \E sep \in {<<" ">>, <<";">>} :
                    Includes(mp.body, sep \o Str_nameEq \o mp.decoded[k].name \o Quote)
              /\ \E sep \in {<<" ">>, <<";">>} :
                    Includes(mp.body, sep \o Str_filenameEq \o mp.decoded[k].filename \o Quote)

\* C30: a result of the router has a handler and no status, or the status 404
\* or 500 and no handler.  With a handler, executePipeline runs the handler
\* and does not write the direct response; without one it writes the status
\* and the message of the result and runs no handler.
C30_ExactlyOneArm ==
    Succeeded("router")
        => /\ \/ result.handler # "" /\ result.statusCode = 0
              \/ result.handler = "" /\ result.statusCode \in {404, 500}
           /\ result.handler # ""
                => /\ Ran("handler")
                   /\ pc # "respond"
                   /\ pc = result.handler => res = NewResponse
           /\ result.handler = ""
                => /\ ~Ran("handler")
                   /\ pc \in {"respond", "logger", "done"}
                   /\ pc = "respond" => res = NewResponse
                   /\ pc # "respond"
                        => /\ res.ended
                           /\ res.statusCode = result.statusCode
                           /\ res.text = result.message

\* a stat that failed with another code than ENOENT was answered 500 by the
\* direct response, without handler
C30_Witness ==
    /\ pc = "done"
    /\ result = HandlerResult("", 500, "Internal Server Error")
    /\ ~Ran("handler")
    /\ caught = NoError
    /\ res.ended
    /\ res.statusCode = 500

\* the bytes the chunk list of collectBody holds
HeldBytes ==
    BytesOfFirst(chunks, Len(chunks))

EventDelivered ==
    \/ emitted' # emitted
    \/ stream = "flowing" /\ stream' \in {"ended", "errored"}

\* C32: the promise of collectBody is settled once, by the first 'end' (with
\* the chunks stored so far), the first 'error' (with that error) or the
\* chunk that takes the total over the limit; an event delivered to a
\* settled collector changes neither the promise nor context.body, the
\* caught error, the response or the place of the pipeline; and what
\* bodyCollector handed on is what the promise was settled with.
C32_SettlesOnce ==
    /\ [][collect.state \in {"resolved", "rejected"} => collect' = collect]_vars
    /\ [][(collect.state = "pending" /\ collect' # collect)
            => \/ /\ stream = "flowing" /\ stream' = "ended"
                  /\ collect' = Promise("resolved", BufferConcat(chunks), NoError)
               \/ /\ stream = "flowing" /\ stream' = "errored"
                  /\ collect' = Promise("rejected", <<>>, StreamError)
               \/ /\ emitted' # emitted
                  /\ totalSize <= MAX_BODY_SIZE /\ totalSize' > MAX_BODY_SIZE
                  /\ collect' = Promise("rejected", <<>>, BodyTooLarge)]_vars
    /\ [][(EventDelivered /\ collect.state # "pending")
            => UNCHANGED <<collect, context, caught, statusCode, res, pc, result, files,
                           log>>]_vars
    /\ [](Succeeded("bodyCollector")
            => /\ collect.state = "resolved"
               /\ context.body = [set |-> TRUE, data |-> collect.value])
    /\ [](StageFailed("bodyCollector")
            => /\ collect.state = "rejected"
               /\ ~context.body.set
               /\ caught = collect.error
               /\ pc = "done" => /\ res.ended
                                 /\ res.statusCode = (IF collect.error = BodyTooLarge
                                                      THEN 413 ELSE 500))

\* an 'end' was delivered after the 'error' that settled the collection: the
\* request stays answered 500 and has no body
C32_Witness ==
    /\ collect = Promise("rejected", <<>>, StreamError)
    /\ stream = "ended"
    /\ emitted # <<>>
    /\ pc = "done"
    /\ res.statusCode = 500
    /\ ~context.body.set

\* C33 as stated: once the request stream has emitted 'error' before 'end',
\* collectBody is rejected with the error of the stream and context.body is
\* unset, whatever chunks were received before.
C33_ErrorRejectsWithThatError ==
    stream = "errored"
        => /\ collect = Promise("rejected", <<>>, StreamError)
           /\ ~context.body.set
           /\ pc \notin {"bodyCollector", "awaitBody"} => caught = StreamError

\* C33: once the request stream has emitted 'error' before 'end',
\* context.body is unset and collectBody is rejected: with the error of the
\* stream when the chunks received before total at most 100 MiB, none
\* included, and with the body-too-large error, which came first, when they
\* total more.
C33_FirstFailureRejects ==
    stream = "errored"
        => /\ collect = Promise("rejected", <<>>,
                                IF totalSize > MAX_BODY_SIZE THEN BodyTooLarge
                                ELSE StreamError)
           /\ ~context.body.set
           /\ pc \notin {"bodyCollector", "awaitBody"} => caught = collect.error

\* a chunk was stored, then the stream failed: the request has no body and
\* the catch block received the error of the stream
C33_Witness ==
    /\ stream = "errored"
    /\ chunks = <<UploadBody>>
    /\ collect = Promise("rejected", <<>>, StreamError)
    /\ ~context.body.set
    /\ caught = StreamError
    /\ pc = "done"

\* the upload handler of the request failed at a write
FailedWrite ==
    /\ Uploading
    /\ StageFailed("handler")

\* C34: when the write of part k fails, the handler made exactly k writeFile
\* calls, for the parts 1..k in their order; the disk is the disk before the
\* request with the parts 1..k-1 written and stays so; the parts k..n are
\* still unwritten; and once the catch block has run the response is 500
\* "Internal Server Error".
C34_FailedWriteKeepsEarlierFiles ==
    FailedWrite
        => LET all == DecodedParts
               k == Len(WriteCalls)
           IN  /\ k \in 1..Len(all)
               /\ \A j \in 1..k : WriteCalls[j].path = uploadPath(context.filePath, all[j])
               /\ parts = SubSeq(all, k, Len(all))
               /\ files = WrittenInOrder(InitialFiles, context.filePath, all, k - 1)
               /\ \A j \in 1..(k - 1) :
                    (\A i \in (j + 1)..(k - 1) : all[i].filename # all[j].filename)
                        => files[FsKey(uploadPath(context.filePath, all[j]))]
                               = File(all[j].data)
               /\ WriteOutcome(files, uploadPath(context.filePath, all[k])) # "ok"
               /\ caught = ErrnoException(WriteOutcome(files,
                                                       uploadPath(context.filePath, all[k])))
               /\ ~Succeeded("handler")
               /\ pc \in {"catch", "done"}
               /\ pc = "done" => /\ res.ended
                                 /\ res.statusCode = 500
                                 /\ res.text = "Internal Server Error"

\* the second of three parts could not be written: the first part replaced
\* a.txt, the third was never written, the response is 500
C34_Witness ==
    /\ FailedWrite
    /\ pc = "done"
    /\ res.statusCode = 500
    /\ req.url = Slash
    /\ Len(DecodedParts) = 3
    /\ Len(WriteCalls) = 2
    /\ files[FsKey(uploadPath(context.filePath, DecodedParts[1]))]
           = File(DecodedParts[1].data)
    /\ InitialFiles[FsKey(uploadPath(context.filePath, DecodedParts[1]))]
           # File(DecodedParts[1].data)
    /\ FsKey(uploadPath(context.filePath, DecodedParts[3])) \notin DOMAIN files

\* createRequestContext or security throws SecurityViolationError for the
\* request
GuardRefuses ==
    /\ Decodable
    /\ LET made == createRequestContext(req.url, Root) IN
       IF made.ok
       THEN ~security(made.value.requestPath, made.value.filePath, Root).ok
       ELSE made.error.class = "SecurityViolationError"

\* the request passed the guard for a path outside the asset prefix at which
\* fs.stat finds no entry
MissingPath ==
    /\ Succeeded("security")
    /\ ~StartsWith(context.requestPath, AssetPrefix)
    /\ StatOutcome(files, context.filePath) = "ENOENT"

C36_SafePathIsNotRefused ==
    (/\ Decodable
     /\ ~HasDotDotSegment(DecodedPath)
     /\ Beneath(FsKey(pathJoin(Root, DecodedPath)), Root))
        => /\ caught.class # "SecurityViolationError"
           /\ ~StageFailed("context")
           /\ ~StageFailed("security")
           /\ res.statusCode # 403

\* one of the stages of the request threw
SomeStageFailed ==
    \E i \in 1..Len(stages) : stages[i].event = "fail"

\* C37: executePipeline never ends as a rejected promise.  A failure of
\* context creation, of the guard, of body collection or of a handler is
\* handed to the catch block, which ends the response with 403, 413 or 500
\* and completes; the router fails in no case; and when the fallback context
\* for the log line cannot be built either, the catch block writes the line
\* itself and completes.
C37_PipelineNeverRejects ==
    /\ pc # "rejected"
    /\ ~StageFailed("router")
    /\ ~StageFailed("logger")
    /\ ~StageFailed("error")
    /\ SomeStageFailed
         => /\ pc \in {"catch", "done"}
            /\ caught # NoError
            /\ pc = "done"
                 => /\ Succeeded("error")
                    /\ res.ended
                    /\ res.statusCode \in {403, 413, 500}
                    /\ res.statusCode = statusCode
                    /\ (caught.class # "SecurityViolationError"
                        /\ ~createRequestContext(req.url, Root).ok)
                         => /\ log # <<>>
                            /\ log[Len(log)] = rawLogLine(req.method, req.url, 500)
    /\ (pc = "done" /\ ~SomeStageFailed)
         => /\ caught = NoError
            /\ Succeeded("logger")

\* a request without URL: context creation failed twice, for the request and
\* for the log line, and the request ended answered 500 and logged
C37_Witness ==
    /\ pc = "done"
    /\ req.url = <<>>
    /\ StageFailed("context")
    /\ res.ended
    /\ res.statusCode = 500
    /\ log # <<>>
    /\ log[Len(log)] = rawLogLine(req.method, <<>>, 500)

\* the pipeline has returned and nothing it started is still at work
RequestOver ==
    /\ pc = "done"
    /\ pipe.state # "opening"

\* C38: the response of a request is finished exactly once: once it is
\* ended no step changes its status, headers or body, and every request
\* whose pipeline has returned, with the stream a handler started no longer
\* opening, has an ended response.
C38_FinishedExactlyOnce ==
    /\ [][res.ended => res' = res]_vars
    /\ [](RequestOver => res.ended)

=============================================================================
